---- MODULE Spec2Model ----
(***************************************************************************)
(* Loan metrics of seeds-metrics, as fixed by the validation suite         *)
(* backend/tests/test_loan_metrics_validation.py.                          *)
(*                                                                         *)
(* Values.  A Python int is a TLA+ integer.  A Decimal is an exact         *)
(* fraction [n |-> numerator, d |-> denominator] in lowest terms, d > 0.   *)
(* A nullable column is <<>> for NULL / None and <<v>> for the value v.    *)
(* A date is a day number; day 0 is a Monday, so date.weekday() is the     *)
(* day number modulo 7.                                                    *)
(***************************************************************************)
EXTENDS Integers, Sequences, FiniteSets, TLC

----------------------------------------------------------------------------
(* Bounds of the model. *)

\* most rows of loans_ajorepayment held for the loan under validation
MaxRepayments == 2

\* latest day date.today() may return
MaxDay == 8

----------------------------------------------------------------------------
(* None and nullable values. *)

None == <<>>

Some(v) == <<v>>

IsNone(x) == x = <<>>

Val(x) == x[1]

----------------------------------------------------------------------------
(* Decimal arithmetic (exact). *)

Abs(i) == IF i < 0 THEN -i ELSE i

RECURSIVE GCD(_, _)
GCD(a, b) == IF b = 0 THEN a ELSE GCD(b, a % b)

\* the fraction n/d, d > 0, in lowest terms
Norm(n, d) == LET g == GCD(Abs(n), d) IN [n |-> n \div g, d |-> d \div g]

\* Decimal(str(i)) of an integer i
Dec(i) == [n |-> i, d |-> 1]

\* the value division leaves behind when the divisor is zero: the operation
\* raises (decimal.DivisionByZero / InvalidOperation) and yields no number
DivFault == [n |-> 0, d |-> 0]

IsFault(a) == a.d = 0

DAdd(a, b) == Norm(a.n * b.d + b.n * a.d, a.d * b.d)

DSub(a, b) == Norm(a.n * b.d - b.n * a.d, a.d * b.d)

DMul(a, b) == Norm(a.n * b.n, a.d * b.d)

DDiv(a, b) ==
    IF b.n = 0 THEN DivFault
    ELSE IF b.n > 0 THEN Norm(a.n * b.d, a.d * b.n)
    ELSE Norm(-(a.n * b.d), -(a.d * b.n))

DLe(a, b) == a.n * b.d <= b.n * a.d

DLt(a, b) == a.n * b.d < b.n * a.d

DAbs(a) == [n |-> Abs(a.n), d |-> a.d]

\* max(a, b) of Python: the first argument unless the second is larger
DMax(a, b) == IF DLt(a, b) THEN b ELSE a

IMax(a, b) == IF a < b THEN b ELSE a

IMin(a, b) == IF b < a THEN b ELSE a

\* int(x) of a Decimal: truncation toward zero
PyInt(a) == IF a.n >= 0 THEN a.n \div a.d ELSE -((-a.n) \div a.d)

\* truthiness of a nullable Decimal column: NULL and zero are false
TruthyDec(x) == ~IsNone(x) /\ Val(x).n # 0

\* truthiness of a nullable integer column
TruthyInt(x) == ~IsNone(x) /\ Val(x) # 0

----------------------------------------------------------------------------
(* BusinessCalendar: MetricsValidator.count_business_days. *)

Weekday(day) == day % 7

\* a calendar that takes Saturday for a business day
IsBusinessDay_saturday(current) == Weekday(current) < 6

\* current.weekday() < 5: Monday to Friday
IsBusinessDay(current) == Weekday(current) < 5

\* a loop that stops before the end date
LoopContinues_exclusive(current, end_date) == current < end_date

\* the loop condition, current <= end_date
LoopContinues(current, end_date) == current <= end_date

\* the while loop, from the value of (current, days) on
RECURSIVE CountLoop(_, _, _)
CountLoop(current, end_date, days) ==
    IF LoopContinues(current, end_date)
    THEN CountLoop(current + 1, end_date,
                   IF IsBusinessDay(current) THEN days + 1 ELSE days)
    ELSE days

\* a count that starts over on the Monday of the end date's week
count_business_days_this_week(start_date, end_date) ==
    IF IsNone(start_date) \/ IsNone(end_date) THEN 0
    ELSE CountLoop(IMax(Val(start_date),
                        Val(end_date) - Weekday(Val(end_date))),
                   Val(end_date), 0)

count_business_days(start_date, end_date) ==
    IF IsNone(start_date) \/ IsNone(end_date) THEN 0
    ELSE CountLoop(Val(start_date), Val(end_date), 0)

----------------------------------------------------------------------------
(* The rows the two databases can hold for the loan under validation. *)

\* loans_ajoloan.loan_amount
LoanAmounts == {Dec(0), Dec(1000)}

\* loans_ajoloan.interest_rate, a fraction (0.15)
InterestRates == {Norm(15, 100)}

\* loans_ajoloan.fee_amount, nullable
FeeAmounts == {None, Some(Dec(50))}

\* loans_ajoloan.loan_term_days
LoanTermDays == {-1, 0, 3, 30}

\* loans_ajoloan.date_disbursed, nullable (day 3 is a Thursday)
DisbursementDates == {None, Some(3)}

\* loans_ajoloan.maturity_date, nullable; compared, read by no formula
MaturityDates == {None}

\* loans_ajoloan.start_date, nullable
FirstPaymentDueDates == {None, Some(5)}

\* the values date.today() may return, from the disbursement day on
Today == 3 .. MaxDay

\* one row of loans_ajorepayment
Repayment(day, principal, interest, fees, amount, reversed) ==
    [payment_date |-> day, principal_paid |-> Dec(principal),
     interest_paid |-> Dec(interest), fees_paid |-> Dec(fees),
     payment_amount |-> Dec(amount), is_reversed |-> reversed]

\* the rows a loan's repayment history is built from: an early payment with
\* no reversal flag, a late one-instalment payment, a reversed payment and a
\* negative adjustment entry
RepaymentRows ==
    { Repayment(4, 500, 75, 50, 625, None),
      Repayment(6, 30, 8, 2, 40, Some(FALSE)),
      Repayment(7, 30, 8, 2, 40, Some(TRUE)),
      Repayment(7, 0, 0, 0, -10, Some(FALSE)) }

\* the histories: every sequence of at most MaxRepayments rows, in the
\* order the table holds them
Histories == UNION { [1 .. k -> RepaymentRows] : k \in 0 .. MaxRepayments }

----------------------------------------------------------------------------
(* RepaymentAggregator: get_django_repayments and the sums of              *)
(* validate_repayment_totals.                                              *)

\* a filter that drops the rows whose reversal flag is NULL
NotReversed_false_only(r) ==
    ~IsNone(r.is_reversed) /\ Val(r.is_reversed) = FALSE

\* a query without the reversal filter
NotReversed_unfiltered(r) == TRUE

\* WHERE (is_reversed IS NULL OR is_reversed = FALSE)
NotReversed(r) == IsNone(r.is_reversed) \/ Val(r.is_reversed) = FALSE

\* ORDER BY payment_date: insertion of row r into the sorted sequence s
RECURSIVE InsertByDate(_, _)
InsertByDate(r, s) ==
    IF s = <<>> THEN <<r>>
    ELSE IF r.payment_date < Head(s).payment_date THEN <<r>> \o s
    ELSE <<Head(s)>> \o InsertByDate(r, Tail(s))

RECURSIVE OrderByDate(_)
OrderByDate(s) ==
    IF s = <<>> THEN <<>>
    ELSE InsertByDate(s[Len(s)], OrderByDate(SubSeq(s, 1, Len(s) - 1)))

get_django_repayments(table) == OrderByDate(SelectSeq(table, NotReversed))

\* sum(Decimal(str(r[field])) for r in django_repayments), left to right
RECURSIVE SumFrom(_, _, _)
SumFrom(acc, reps, field) ==
    IF reps = <<>> THEN acc
    ELSE SumFrom(DAdd(acc, Head(reps)[field]), Tail(reps), field)

SumOf(reps, field) == SumFrom(Dec(0), reps, field)

----------------------------------------------------------------------------
(* BalanceReconciler: the expected values of validate_outstanding_balances, *)
(* validate_business_days_calculations and validate_actual_outstanding.     *)
(* dj is the row of loans_ajoloan, m the row of the metrics loans table.    *)

\* Decimal(str(fee_amount)) if fee_amount else Decimal('0')
fee_amount(dj) ==
    IF TruthyDec(dj.fee_amount) THEN Val(dj.fee_amount) ELSE Dec(0)

\* a principal balance floored at zero
expected_principal_outstanding_clamped(dj, m) ==
    DMax(Dec(0), DSub(dj.loan_amount, Val(m.total_principal_paid)))

expected_principal_outstanding(dj, m) ==
    DSub(dj.loan_amount, Val(m.total_principal_paid))

expected_interest_outstanding(dj, m) ==
    DMax(Dec(0), DSub(DMul(dj.loan_amount, dj.interest_rate),
                      Val(m.total_interest_paid)))

expected_fees_outstanding(dj, m) ==
    DMax(Dec(0), DSub(fee_amount(dj), Val(m.total_fees_paid)))

\* a total that counts an overpaid principal as zero
expected_total_outstanding_clamped(dj, m) ==
    DAdd(DAdd(DMax(Dec(0), DSub(dj.loan_amount, Val(m.total_principal_paid))),
              DMax(Dec(0), DSub(DMul(dj.loan_amount, dj.interest_rate),
                                Val(m.total_interest_paid)))),
         DMax(Dec(0), DSub(IF TruthyDec(dj.fee_amount)
                           THEN Val(dj.fee_amount) ELSE Dec(0),
                           Val(m.total_fees_paid))))

expected_total_outstanding(dj, m) ==
    DAdd(DAdd(expected_principal_outstanding(dj, m),
              expected_interest_outstanding(dj, m)),
         expected_fees_outstanding(dj, m))

repayment_amount(dj) ==
    DAdd(DMul(dj.loan_amount, DAdd(Dec(1), dj.interest_rate)), fee_amount(dj))

\* a daily amount guarded by loan_term_days >= 0
expected_daily_repayment_nonnegative(dj) ==
    IF dj.loan_term_days >= 0
    THEN DDiv(DAdd(DMul(dj.loan_amount, DAdd(Dec(1), dj.interest_rate)),
                   IF TruthyDec(dj.fee_amount)
                   THEN Val(dj.fee_amount) ELSE Dec(0)),
              Dec(dj.loan_term_days))
    ELSE Dec(0)

\* a daily amount divided by the term length whatever it is
expected_daily_repayment_unguarded(dj) ==
    DDiv(repayment_amount(dj), Dec(dj.loan_term_days))

expected_daily_repayment(dj) ==
    IF dj.loan_term_days > 0
    THEN DDiv(repayment_amount(dj), Dec(dj.loan_term_days))
    ELSE Dec(0)

\* the guard of the "Repayment Days Paid" assertion
DaysPaidDefined(m) ==
    TruthyDec(m.daily_repayment_amount)
    /\ DLt(Dec(0), Val(m.daily_repayment_amount))

\* None where the suite computes no expected value
expected_repayment_days_paid(m) ==
    IF DaysPaidDefined(m)
    THEN Some(DDiv(Val(m.total_repayments), Val(m.daily_repayment_amount)))
    ELSE None

\* a shortfall without the floor at zero
expected_actual_outstanding_unclamped(m) ==
    IF TruthyDec(m.daily_repayment_amount)
       /\ TruthyInt(m.repayment_days_due_today)
    THEN DSub(DMul(Val(m.daily_repayment_amount),
                   Dec(Val(m.repayment_days_due_today))),
              Val(m.total_repayments))
    ELSE Dec(0)

expected_actual_outstanding(m) ==
    IF TruthyDec(m.daily_repayment_amount)
       /\ TruthyInt(m.repayment_days_due_today)
    THEN DMax(Dec(0),
              DSub(DMul(Val(m.daily_repayment_amount),
                        Dec(Val(m.repayment_days_due_today))),
                   Val(m.total_repayments)))
    ELSE Dec(0)

\* expected_business_days; None where the assertion is skipped
expected_business_days(dj, today) ==
    IF ~IsNone(dj.disbursement_date)
    THEN Some(count_business_days(dj.disbursement_date, Some(today)))
    ELSE None

\* (date.today() - disbursement_date).days; None where skipped
expected_loan_age(dj, today) ==
    IF ~IsNone(dj.disbursement_date)
    THEN Some(today - Val(dj.disbursement_date))
    ELSE None

----------------------------------------------------------------------------
(* DelinquencyEngine: the expected values of validate_dpd_calculations and *)
(* validate_fimr_tagging.                                                  *)

\* the branch that reads repayment_days_due_today and repayment_days_paid
DpdOutstanding(m) ==
    TruthyDec(m.actual_outstanding) /\ DLt(Dec(0), Val(m.actual_outstanding))

\* int(None) and None - int raise TypeError
DpdRaises(m) ==
    DpdOutstanding(m)
    /\ (IsNone(m.repayment_days_paid) \/ IsNone(m.repayment_days_due_today))

\* a DPD that counts a day paid in part as paid
expected_dpd_ceiling(m) ==
    IF DpdOutstanding(m)
    THEN IMax(0, Val(m.repayment_days_due_today)
                 + ((0 - Val(m.repayment_days_paid).n)
                    \div Val(m.repayment_days_paid).d))
    ELSE 0

\* a DPD that takes math.floor of repayment_days_paid
expected_dpd_floor(m) ==
    IF DpdOutstanding(m)
    THEN IMax(0, Val(m.repayment_days_due_today)
                 - (Val(m.repayment_days_paid).n
                    \div Val(m.repayment_days_paid).d))
    ELSE 0

expected_dpd(m) ==
    IF DpdOutstanding(m)
    THEN IMax(0, Val(m.repayment_days_due_today)
                 - PyInt(Val(m.repayment_days_paid)))
    ELSE 0

\* a tag that still counts the seventh day as early
expected_early_indicator_week(m) ==
    1 <= Val(m.current_dpd) /\ Val(m.current_dpd) <= 7

expected_early_indicator(m) ==
    1 <= Val(m.current_dpd) /\ Val(m.current_dpd) <= 6

\* a tag that takes a payment due today for overdue
expected_fimr_strict(m, today) ==
    IF IsNone(m.first_payment_due_date) THEN TRUE
    ELSE IF ~IsNone(m.first_payment_received_date)
            /\ Val(m.first_payment_received_date)
               <= Val(m.first_payment_due_date) THEN FALSE
    ELSE IF IsNone(m.first_payment_received_date)
            /\ Val(m.first_payment_due_date) > today THEN FALSE
    ELSE TRUE

expected_fimr(m, today) ==
    IF IsNone(m.first_payment_due_date) THEN TRUE
    ELSE IF ~IsNone(m.first_payment_received_date)
            /\ Val(m.first_payment_received_date)
               <= Val(m.first_payment_due_date) THEN FALSE
    ELSE IF IsNone(m.first_payment_received_date)
            /\ Val(m.first_payment_due_date) >= today THEN FALSE
    ELSE TRUE

\* a flag that needs a due date before a payment can be missed
expected_first_payment_missed_due_known(m) ==
    IF ~IsNone(m.first_payment_received_date)
       /\ ~IsNone(m.first_payment_due_date)
    THEN Val(m.first_payment_received_date) > Val(m.first_payment_due_date)
    ELSE IF IsNone(m.first_payment_received_date)
    THEN ~IsNone(m.first_payment_due_date)
    ELSE FALSE

\* a flag that takes a payment made on the due date for missed
expected_first_payment_missed_inclusive(m) ==
    IF ~IsNone(m.first_payment_received_date)
       /\ ~IsNone(m.first_payment_due_date)
    THEN Val(m.first_payment_received_date) >= Val(m.first_payment_due_date)
    ELSE IF IsNone(m.first_payment_received_date) THEN TRUE
    ELSE FALSE

expected_first_payment_missed(m) ==
    IF ~IsNone(m.first_payment_received_date)
       /\ ~IsNone(m.first_payment_due_date)
    THEN Val(m.first_payment_received_date) > Val(m.first_payment_due_date)
    ELSE IF IsNone(m.first_payment_received_date) THEN TRUE
    ELSE FALSE

----------------------------------------------------------------------------
(* DelayRateScorer: the expected value of validate_repayment_delay_rate.   *)

\* 0.25, the normalisation constant of the score
DelayThreshold == Norm(25, 100)

\* a rate that adds the two delays without halving them
expected_rate_unaveraged(m) ==
    IF TruthyInt(m.loan_age) /\ Val(m.loan_age) > 0
    THEN IF ~IsNone(m.days_since_last_repayment)
         THEN Some(DMul(DSub(Dec(1),
                   DDiv(DDiv(Dec(Val(m.days_since_last_repayment)
                                 + Val(m.current_dpd)),
                             Dec(Val(m.loan_age))), DelayThreshold)),
                   Dec(100)))
         ELSE Some(DMul(DSub(Dec(1),
                   DDiv(DDiv(Dec(Val(m.current_dpd)), Dec(Val(m.loan_age))),
                        DelayThreshold)),
                   Dec(100)))
    ELSE IF ~IsNone(m.loan_age) /\ Val(m.loan_age) = 0 THEN Some(Dec(0))
    ELSE None

\* a rate that is cut off at 0
expected_rate_clamped(m) ==
    IF TruthyInt(m.loan_age) /\ Val(m.loan_age) > 0
    THEN IF ~IsNone(m.days_since_last_repayment)
         THEN Some(DMax(Dec(0), DMul(DSub(Dec(1),
                   DDiv(DDiv(DDiv(Dec(Val(m.days_since_last_repayment)
                                      + Val(m.current_dpd)), Dec(2)),
                             Dec(Val(m.loan_age))), DelayThreshold)),
                   Dec(100))))
         ELSE Some(DMax(Dec(0), DMul(DSub(Dec(1),
                   DDiv(DDiv(Dec(Val(m.current_dpd)), Dec(Val(m.loan_age))),
                        DelayThreshold)),
                   Dec(100))))
    ELSE IF ~IsNone(m.loan_age) /\ Val(m.loan_age) = 0 THEN Some(Dec(0))
    ELSE None

\* a rate that takes the last repayment's age for a credit
expected_rate_credited(m) ==
    IF TruthyInt(m.loan_age) /\ Val(m.loan_age) > 0
    THEN IF ~IsNone(m.days_since_last_repayment)
         THEN Some(DMul(DSub(Dec(1),
                   DDiv(DDiv(DDiv(Dec(Val(m.current_dpd)
                                      - Val(m.days_since_last_repayment)),
                                  Dec(2)),
                             Dec(Val(m.loan_age))), DelayThreshold)),
                   Dec(100)))
         ELSE Some(DMul(DSub(Dec(1),
                   DDiv(DDiv(Dec(Val(m.current_dpd)), Dec(Val(m.loan_age))),
                        DelayThreshold)),
                   Dec(100)))
    ELSE IF ~IsNone(m.loan_age) /\ Val(m.loan_age) = 0 THEN Some(Dec(0))
    ELSE None

\* expected_rate; None where the rate is NULL
expected_rate(m) ==
    IF TruthyInt(m.loan_age) /\ Val(m.loan_age) > 0
    THEN IF ~IsNone(m.days_since_last_repayment)
         THEN Some(DMul(DSub(Dec(1),
                   DDiv(DDiv(DDiv(Dec(Val(m.days_since_last_repayment)
                                      + Val(m.current_dpd)), Dec(2)),
                             Dec(Val(m.loan_age))), DelayThreshold)),
                   Dec(100)))
         ELSE Some(DMul(DSub(Dec(1),
                   DDiv(DDiv(Dec(Val(m.current_dpd)), Dec(Val(m.loan_age))),
                        DelayThreshold)),
                   Dec(100)))
    ELSE IF ~IsNone(m.loan_age) /\ Val(m.loan_age) = 0 THEN Some(Dec(0))
    ELSE None

\* round(x, 2): to two decimals, ties to even
Round2(a) ==
    LET scaled == DMul(a, Dec(100))
        low    == scaled.n \div scaled.d
        twice  == 2 * (scaled.n - low * scaled.d)
        units  == IF twice < scaled.d THEN low
                  ELSE IF twice > scaled.d THEN low + 1
                  ELSE IF low % 2 = 0 THEN low ELSE low + 1
    IN  Norm(units, 100)

----------------------------------------------------------------------------
(* MetricsAssembler: the row of the metrics loans table for a loan, every  *)
(* computed column holding the value the validation suite expects of it.   *)

\* repayment_days_due_today: business days since disbursement, capped at
\* the term length
repayment_days_due_today(dj, today) ==
    IMin(count_business_days(dj.disbursement_date, Some(today)),
         dj.loan_term_days)

\* date of the first non-reversed repayment
first_payment_received_date(reps) ==
    IF reps = <<>> THEN None ELSE Some(reps[1].payment_date)

\* days from the most recent non-reversed repayment to the evaluation date
days_since_last_repayment(reps, today) ==
    IF reps = <<>> THEN None ELSE Some(today - reps[Len(reps)].payment_date)

computeSnapshot(dj, reps, today) ==
    LET m0 == [ loan_amount |-> dj.loan_amount,
                interest_rate |-> dj.interest_rate,
                loan_term_days |-> dj.loan_term_days,
                disbursement_date |-> dj.disbursement_date,
                maturity_date |-> dj.maturity_date,
                first_payment_due_date |-> dj.first_payment_due_date,
                first_payment_received_date |->
                    first_payment_received_date(reps),
                total_principal_paid |-> Some(SumOf(reps, "principal_paid")),
                total_interest_paid |-> Some(SumOf(reps, "interest_paid")),
                total_fees_paid |-> Some(SumOf(reps, "fees_paid")),
                total_repayments |-> Some(SumOf(reps, "payment_amount")),
                loan_age |-> expected_loan_age(dj, today),
                days_since_last_repayment |->
                    days_since_last_repayment(reps, today),
                business_days_since_disbursement |->
                    Some(count_business_days(dj.disbursement_date,
                                             Some(today))),
                repayment_days_due_today |->
                    Some(repayment_days_due_today(dj, today)),
                daily_repayment_amount |-> Some(expected_daily_repayment(dj)) ]
        m1 == m0 @@
              [ principal_outstanding |->
                    Some(expected_principal_outstanding(dj, m0)),
                interest_outstanding |->
                    Some(expected_interest_outstanding(dj, m0)),
                fees_outstanding |-> Some(expected_fees_outstanding(dj, m0)),
                total_outstanding |-> Some(expected_total_outstanding(dj, m0)),
                repayment_days_paid |-> expected_repayment_days_paid(m0),
                actual_outstanding |-> Some(expected_actual_outstanding(m0)) ]
        m2 == m1 @@ [ current_dpd |-> Some(expected_dpd(m1)) ]
    IN  m2 @@
        [ early_indicator_tagged |-> Some(expected_early_indicator(m2)),
          fimr_tagged |-> Some(expected_fimr(m2, today)),
          first_payment_missed |-> Some(expected_first_payment_missed(m2)),
          repayment_delay_rate |-> expected_rate(m2) ]

----------------------------------------------------------------------------
(* State. *)

VARIABLES
    django_data,        \* the loan's row of loans_ajoloan
    loans_ajorepayment, \* the loan's rows of loans_ajorepayment, table order
    today,              \* date.today()
    metrics_data,       \* the loan's row of the metrics loans table
    django_repayments,  \* result of get_django_repayments
    expected,           \* the expected_* values computed so far
    validator,          \* test_results, total_tests, passed_tests, failed_tests
    raised,             \* the exception that ended validate_loan, or "none"
    pc,                 \* position in validate_loan
    start_date,         \* count_business_days: argument start_date
    end_date,           \* count_business_days: argument end_date
    current,            \* count_business_days: local current
    days,               \* count_business_days: local days
    returned,           \* count_business_days: the value returned, or None
    cal_pc,             \* position in count_business_days
    evaluation_date,    \* the date the stored rows were computed for
    loan_index,         \* main: number of TEST_LOAN_IDS entries started
    main_pc,            \* position in main
    stdout,             \* the lines printed about loans and the summary
    exit_status,        \* argument of sys.exit, or None
    previous,           \* rows, expected values and counters of the loan
                        \* validated before the current one
    outcome,            \* per thread: passed, for each of its comparisons
    call,               \* per thread: assert_equal calls it has entered
    register,           \* per thread: the counter value it has loaded
    thread_pc,          \* per thread: position in assert_equal
    script,             \* the sync script that is run
    source,             \* the rows fetched from the Django database
    committed,          \* the Seeds Metrics table, committed rows by key
    pending,            \* the table as the open transaction has it
    loop_i,             \* i: the number of source rows the loop has taken
    updated_count,      \* updated_count
    run,                \* the number of the run, which stamps updated_at
    sync_pc,            \* position in the sync
    entry,              \* the script whose main opens connections
    fault,              \* the step of main that raises, or <<"none", 0>>
    bound,              \* the connection names of main that are bound
    opened,             \* the connections that were opened
    closed,             \* the connections close() was called on
    cleanup,            \* the exception the finally block raised, or "none"
    conn_pc             \* position in main, as <<step, connection>>

\* the state of validate_loan
loan_vars == <<django_data, loans_ajorepayment, today, metrics_data,
               django_repayments, expected, validator, raised, pc>>

\* the state of a call of count_business_days
cal_vars == <<start_date, end_date, current, days, returned, cal_pc>>

\* the state of main
main_vars == <<evaluation_date, loan_index, main_pc, stdout, exit_status,
               previous>>

\* the state of the threads that share one MetricsValidator
thread_vars == <<outcome, call, register, thread_pc>>

\* the state of a sync script
sync_vars == <<script, source, committed, pending, loop_i, updated_count, run,
               sync_pc>>

\* the connections of a script's main
conn_vars == <<entry, fault, bound, opened, closed, cleanup, conn_pc>>

\* the state outside validate_loan, count_business_days and main
script_vars == <<thread_vars, sync_vars, conn_vars>>

vars == <<loan_vars, cal_vars, main_vars, script_vars>>

\* loans_ajoloan rows
LoanTerms ==
    [ loan_amount : LoanAmounts, interest_rate : InterestRates,
      fee_amount : FeeAmounts, loan_term_days : LoanTermDays,
      disbursement_date : DisbursementDates,
      maturity_date : MaturityDates,
      first_payment_due_date : FirstPaymentDueDates ]

\* no repayment is dated after the evaluation date
Recorded(table, day) == \A i \in 1 .. Len(table) : table[i].payment_date <= day

NoExpectation ==
    [ expected_principal |-> None, expected_interest |-> None,
      expected_fees |-> None, expected_total |-> None,
      expected_principal_outstanding |-> None,
      expected_interest_outstanding |-> None,
      expected_fees_outstanding |-> None,
      expected_total_outstanding |-> None,
      expected_business_days |-> None, expected_loan_age |-> None,
      repayment_amount |-> None, expected_daily_repayment |-> None,
      expected_repayment_days_paid |-> None,
      expected_actual_outstanding |-> None, expected_dpd |-> None,
      expected_early_indicator |-> None, expected_rate |-> None,
      expected_fimr |-> None, expected_first_payment_missed |-> None ]

\* MetricsValidator.__init__
NewValidator ==
    [ test_results |-> <<>>, total_tests |-> 0, passed_tests |-> 0,
      failed_tests |-> 0 ]

\* no thread is started
ThreadsIdle ==
    /\ outcome = <<>>
    /\ call = <<>>
    /\ register = <<>>
    /\ thread_pc = <<>>

\* no sync script is run
SyncIdle ==
    /\ script = "none"
    /\ source = <<>>
    /\ committed = <<>>
    /\ pending = <<>>
    /\ loop_i = 0
    /\ updated_count = 0
    /\ run = 0
    /\ sync_pc = "idle"

\* no main is opening or closing connections
ConnIdle ==
    /\ entry = "none"
    /\ fault = <<"none", 0>>
    /\ bound = {}
    /\ opened = {}
    /\ closed = {}
    /\ cleanup = "none"
    /\ conn_pc = <<"idle", 0>>

\* nothing outside the validation run is under way
ScriptsIdle == ThreadsIdle /\ SyncIdle /\ ConnIdle

Init ==
    /\ django_data \in LoanTerms
    /\ today \in Today
    /\ loans_ajorepayment \in { h \in Histories : Recorded(h, today) }
    /\ metrics_data =
           computeSnapshot(django_data,
                           get_django_repayments(loans_ajorepayment), today)
    /\ django_repayments = <<>>
    /\ expected = NoExpectation
    /\ validator = NewValidator
    /\ raised = "none"
    /\ pc = "validate_loan"
    /\ start_date = None
    /\ end_date = None
    /\ current = None
    /\ days = 0
    /\ returned = None
    /\ cal_pc = "idle"
    /\ evaluation_date = today
    /\ loan_index = 0
    /\ main_pc = "idle"
    /\ stdout = <<>>
    /\ exit_status = None
    /\ previous = None
    /\ ScriptsIdle

----------------------------------------------------------------------------
(* MetricsValidator.assert_equal. *)

\* Decimal('0.01'), Decimal('0.0001') and Decimal('0.1')
MoneyTolerance == Norm(1, 100)

RateTolerance == Norm(1, 10000)

DelayRateTolerance == Norm(1, 10)

\* abs(Decimal(str(expected)) - Decimal(str(actual))) <= tolerance
passed_within(exp, actual, tolerance) ==
    DLe(DAbs(DSub(exp, actual)), tolerance)

\* expected == actual
passed_exact(exp, actual) == exp = actual

\* an assert_equal that counts a failed comparison in total_tests only
assert_equal_failure_uncounted(self, test_name, passed) ==
    [ total_tests |-> self.total_tests + 1,
      passed_tests |-> IF passed THEN self.passed_tests + 1
                       ELSE self.passed_tests,
      failed_tests |-> self.failed_tests,
      test_results |-> Append(self.test_results,
                              [test |-> test_name, passed |-> passed]) ]

\* the counters and the result list after one call whose comparison gave
\* passed
assert_equal(self, test_name, passed) ==
    [ total_tests |-> self.total_tests + 1,
      passed_tests |-> IF passed THEN self.passed_tests + 1
                       ELSE self.passed_tests,
      failed_tests |-> IF passed THEN self.failed_tests
                       ELSE self.failed_tests + 1,
      test_results |-> Append(self.test_results,
                              [test |-> test_name, passed |-> passed]) ]

----------------------------------------------------------------------------
(* MetricsValidator.validate_loan, one action per validation it runs. *)

\* get_django_loan_data, get_metrics_loan_data, get_django_repayments, both
\* rows found
FetchLoan ==
    /\ pc = "validate_loan"
    /\ ~IsNone(django_data)
    /\ ~IsNone(metrics_data)
    /\ django_repayments' = get_django_repayments(loans_ajorepayment)
    /\ pc' = "validate_basic_fields"
    /\ UNCHANGED <<django_data, loans_ajorepayment, today, metrics_data,
                   expected, validator, raised, cal_vars, main_vars,
                   script_vars>>

validate_basic_fields ==
    /\ pc = "validate_basic_fields"
    /\ LET v1 == assert_equal(validator, "Loan Amount",
                     passed_within(django_data.loan_amount,
                                   metrics_data.loan_amount, MoneyTolerance))
           v2 == assert_equal(v1, "Disbursement Date",
                     passed_exact(django_data.disbursement_date,
                                  metrics_data.disbursement_date))
           v3 == assert_equal(v2, "Maturity Date",
                     passed_exact(django_data.maturity_date,
                                  metrics_data.maturity_date))
           v4 == assert_equal(v3, "Loan Term Days",
                     passed_exact(django_data.loan_term_days,
                                  metrics_data.loan_term_days))
           v5 == assert_equal(v4, "Interest Rate",
                     passed_within(django_data.interest_rate,
                                   metrics_data.interest_rate, RateTolerance))
           v6 == assert_equal(v5, "First Payment Due Date",
                     passed_exact(django_data.first_payment_due_date,
                                  metrics_data.first_payment_due_date))
       IN  IF IsNone(django_data.loan_amount)
           THEN \* Decimal(str(None)) raised: validate_loan ends here
                /\ validator' = validator
                /\ raised' = "InvalidOperation"
                /\ pc' = "done"
           ELSE /\ validator' = v6
                /\ raised' = raised
                /\ pc' = "validate_repayment_totals"
    /\ UNCHANGED <<django_data, loans_ajorepayment, today, metrics_data,
                   django_repayments, expected, cal_vars, main_vars,
                   script_vars>>

\* the comparison of a sum with a stored total: sum() of no repayments is
\* the int 0, which assert_equal compares exactly
passed_total(total, actual) ==
    IF django_repayments # <<>>
    THEN passed_within(total, actual, MoneyTolerance)
    ELSE passed_exact(total, actual)

validate_repayment_totals ==
    /\ pc = "validate_repayment_totals"
    /\ LET principal == SumOf(django_repayments, "principal_paid")
           interest  == SumOf(django_repayments, "interest_paid")
           fees      == SumOf(django_repayments, "fees_paid")
           total     == SumOf(django_repayments, "payment_amount")
           v1 == assert_equal(validator, "Total Principal Paid",
                     passed_total(principal,
                                  Val(metrics_data.total_principal_paid)))
           v2 == assert_equal(v1, "Total Interest Paid",
                     passed_total(interest,
                                  Val(metrics_data.total_interest_paid)))
           v3 == assert_equal(v2, "Total Fees Paid",
                     passed_total(fees, Val(metrics_data.total_fees_paid)))
           v4 == assert_equal(v3, "Total Repayments",
                     passed_total(total, Val(metrics_data.total_repayments)))
       IN  /\ expected' = [expected EXCEPT
                  !.expected_principal = Some(principal),
                  !.expected_interest = Some(interest),
                  !.expected_fees = Some(fees),
                  !.expected_total = Some(total)]
           /\ validator' = v4
    /\ pc' = "validate_outstanding_balances"
    /\ UNCHANGED <<django_data, loans_ajorepayment, today, metrics_data,
                   django_repayments, raised, cal_vars, main_vars,
                   script_vars>>

validate_outstanding_balances ==
    /\ pc = "validate_outstanding_balances"
    /\ LET principal == expected_principal_outstanding(django_data,
                                                       metrics_data)
           interest  == expected_interest_outstanding(django_data,
                                                      metrics_data)
           fees      == expected_fees_outstanding(django_data, metrics_data)
           total     == expected_total_outstanding(django_data, metrics_data)
           v1 == assert_equal(validator, "Principal Outstanding",
                     passed_within(principal,
                         Val(metrics_data.principal_outstanding),
                         MoneyTolerance))
           v2 == assert_equal(v1, "Interest Outstanding",
                     passed_within(interest,
                         Val(metrics_data.interest_outstanding),
                         MoneyTolerance))
           v3 == assert_equal(v2, "Fees Outstanding",
                     passed_within(fees, Val(metrics_data.fees_outstanding),
                                   MoneyTolerance))
           v4 == assert_equal(v3, "Total Outstanding",
                     passed_within(total, Val(metrics_data.total_outstanding),
                                   MoneyTolerance))
       IN  /\ expected' = [expected EXCEPT
                  !.expected_principal_outstanding = Some(principal),
                  !.expected_interest_outstanding = Some(interest),
                  !.expected_fees_outstanding = Some(fees),
                  !.expected_total_outstanding = Some(total)]
           /\ validator' = v4
    /\ pc' = "validate_business_days_calculations"
    /\ UNCHANGED <<django_data, loans_ajorepayment, today, metrics_data,
                   django_repayments, raised, cal_vars, main_vars,
                   script_vars>>

validate_business_days_calculations ==
    /\ pc = "validate_business_days_calculations"
    /\ LET business_days == expected_business_days(django_data, today)
           loan_age      == expected_loan_age(django_data, today)
           daily         == expected_daily_repayment(django_data)
           days_paid     == expected_repayment_days_paid(metrics_data)
           v1 == IF ~IsNone(business_days)
                 THEN assert_equal(validator,
                          "Business Days Since Disbursement",
                          passed_exact(business_days,
                              metrics_data.business_days_since_disbursement))
                 ELSE validator
           v2 == IF ~IsNone(loan_age)
                 THEN assert_equal(v1, "Loan Age",
                          passed_exact(loan_age, metrics_data.loan_age))
                 ELSE v1
           v3 == assert_equal(v2, "Daily Repayment Amount",
                     passed_within(daily,
                         Val(metrics_data.daily_repayment_amount),
                         MoneyTolerance))
           v4 == IF ~IsNone(days_paid)
                 THEN assert_equal(v3, "Repayment Days Paid",
                          IF IsNone(metrics_data.repayment_days_paid)
                          THEN \* a Decimal and None: compared exactly
                               FALSE
                          ELSE passed_within(Val(days_paid),
                                   Val(metrics_data.repayment_days_paid),
                                   MoneyTolerance))
                 ELSE v3
       IN  IF IsFault(daily) \/ (~IsNone(days_paid) /\ IsFault(Val(days_paid)))
           THEN \* the division raised: validate_loan ends here
                /\ expected' = [expected EXCEPT
                       !.expected_business_days = business_days,
                       !.expected_loan_age = loan_age,
                       !.repayment_amount =
                           Some(repayment_amount(django_data))]
                /\ validator' = IF IsFault(daily) THEN v2 ELSE v3
                /\ raised' = "ZeroDivisionError"
                /\ pc' = "done"
           ELSE /\ expected' = [expected EXCEPT
                       !.expected_business_days = business_days,
                       !.expected_loan_age = loan_age,
                       !.repayment_amount =
                           Some(repayment_amount(django_data)),
                       !.expected_daily_repayment = Some(daily),
                       !.expected_repayment_days_paid = days_paid]
                /\ validator' = v4
                /\ raised' = raised
                /\ pc' = "validate_actual_outstanding"
    /\ UNCHANGED <<django_data, loans_ajorepayment, today, metrics_data,
                   django_repayments, cal_vars, main_vars,
                   script_vars>>

validate_actual_outstanding ==
    /\ pc = "validate_actual_outstanding"
    /\ LET outstanding == expected_actual_outstanding(metrics_data)
       IN  /\ expected' = [expected EXCEPT
                  !.expected_actual_outstanding = Some(outstanding)]
           /\ validator' = assert_equal(validator, "Actual Outstanding",
                  passed_within(outstanding,
                                Val(metrics_data.actual_outstanding),
                                MoneyTolerance))
    /\ pc' = "validate_dpd_calculations"
    /\ UNCHANGED <<django_data, loans_ajorepayment, today, metrics_data,
                   django_repayments, raised, cal_vars, main_vars,
                   script_vars>>

validate_dpd_calculations ==
    /\ pc = "validate_dpd_calculations"
    /\ IF DpdRaises(metrics_data)
       THEN /\ raised' = "TypeError"
            /\ pc' = "done"
            /\ UNCHANGED <<expected, validator,
                   script_vars>>
       ELSE LET dpd   == expected_dpd(metrics_data)
                early == expected_early_indicator(metrics_data)
                v1 == assert_equal(validator, "Current DPD",
                          passed_exact(dpd, Val(metrics_data.current_dpd)))
                v2 == assert_equal(v1, "Early Indicator Tagged",
                          passed_exact(early,
                              Val(metrics_data.early_indicator_tagged)))
            IN  /\ expected' = [expected EXCEPT
                       !.expected_dpd = Some(dpd),
                       !.expected_early_indicator = Some(early)]
                /\ validator' = v2
                /\ raised' = raised
                /\ pc' = "validate_repayment_delay_rate"
    /\ UNCHANGED <<django_data, loans_ajorepayment, today, metrics_data,
                   django_repayments, cal_vars, main_vars,
                   script_vars>>

validate_repayment_delay_rate ==
    /\ pc = "validate_repayment_delay_rate"
    /\ LET rate == expected_rate(metrics_data)
       IN  /\ expected' = [expected EXCEPT !.expected_rate = rate]
           /\ validator' =
                  IF ~IsNone(rate)
                  THEN assert_equal(validator, "Repayment Delay Rate",
                           passed_within(Round2(Val(rate)),
                               Val(metrics_data.repayment_delay_rate),
                               DelayRateTolerance))
                  ELSE validator
    /\ pc' = "validate_fimr_tagging"
    /\ UNCHANGED <<django_data, loans_ajorepayment, today, metrics_data,
                   django_repayments, raised, cal_vars, main_vars,
                   script_vars>>

validate_fimr_tagging ==
    /\ pc = "validate_fimr_tagging"
    /\ LET fimr   == expected_fimr(metrics_data, today)
           missed == expected_first_payment_missed(metrics_data)
           v1 == assert_equal(validator, "FIMR Tagged",
                     passed_exact(fimr, Val(metrics_data.fimr_tagged)))
           v2 == assert_equal(v1, "First Payment Missed",
                     passed_exact(missed,
                                  Val(metrics_data.first_payment_missed)))
       IN  /\ expected' = [expected EXCEPT
                  !.expected_fimr = Some(fimr),
                  !.expected_first_payment_missed = Some(missed)]
           /\ validator' = v2
    /\ pc' = "done"
    /\ UNCHANGED <<django_data, loans_ajorepayment, today, metrics_data,
                   django_repayments, raised, cal_vars, main_vars,
                   script_vars>>

Next ==
    \/ FetchLoan
    \/ validate_basic_fields
    \/ validate_repayment_totals
    \/ validate_outstanding_balances
    \/ validate_business_days_calculations
    \/ validate_actual_outstanding
    \/ validate_dpd_calculations
    \/ validate_repayment_delay_rate
    \/ validate_fimr_tagging

Spec == Init /\ [][Next]_vars

----------------------------------------------------------------------------
(* A call of count_business_days on any pair of nullable dates, one action *)
(* per step of the function.                                               *)

\* the dates a caller may pass
CalendarDates == {None} \cup { Some(d) : d \in 0 .. MaxDay }

CalendarInit ==
    /\ django_data = None
    /\ loans_ajorepayment = <<>>
    /\ today = 0
    /\ metrics_data = None
    /\ django_repayments = <<>>
    /\ expected = NoExpectation
    /\ validator = NewValidator
    /\ raised = "none"
    /\ pc = "idle"
    /\ start_date \in CalendarDates
    /\ end_date \in CalendarDates
    /\ current = None
    /\ days = 0
    /\ returned = None
    /\ cal_pc = "call"
    /\ evaluation_date = 0
    /\ loan_index = 0
    /\ main_pc = "idle"
    /\ stdout = <<>>
    /\ exit_status = None
    /\ previous = None
    /\ ScriptsIdle

\* if start_date is None or end_date is None: return 0
ReturnZero ==
    /\ cal_pc = "call"
    /\ IsNone(start_date) \/ IsNone(end_date)
    /\ returned' = Some(0)
    /\ cal_pc' = "return"
    /\ UNCHANGED <<loan_vars, main_vars, start_date, end_date, current, days,
                   script_vars>>

\* days = 0; current = start_date
EnterLoop ==
    /\ cal_pc = "call"
    /\ ~(IsNone(start_date) \/ IsNone(end_date))
    /\ days' = 0
    /\ current' = start_date
    /\ cal_pc' = "loop"
    /\ UNCHANGED <<loan_vars, main_vars, start_date, end_date, returned,
                   script_vars>>

\* one iteration of the while loop
LoopStep ==
    /\ cal_pc = "loop"
    /\ LoopContinues(Val(current), Val(end_date))
    /\ days' = IF IsBusinessDay(Val(current)) THEN days + 1 ELSE days
    /\ current' = Some(Val(current) + 1)
    /\ UNCHANGED <<loan_vars, main_vars, start_date, end_date, returned, cal_pc,
                   script_vars>>

\* return days
ReturnDays ==
    /\ cal_pc = "loop"
    /\ ~LoopContinues(Val(current), Val(end_date))
    /\ returned' = Some(days)
    /\ cal_pc' = "return"
    /\ UNCHANGED <<loan_vars, main_vars, start_date, end_date, current, days,
                   script_vars>>

CalendarNext ==
    \/ ReturnZero
    \/ EnterLoop
    \/ LoopStep
    \/ ReturnDays

\* a call that has started runs to its end
CalendarSpec ==
    CalendarInit /\ [][CalendarNext]_vars /\ WF_vars(CalendarNext)

----------------------------------------------------------------------------
(* main: the loop over TEST_LOAN_IDS, the summary and the exit status, with *)
(* the system clock passing midnight while the run is under way.           *)

\* the number of loans of a run
BatchSize == 2

\* the midnights that pass during a run
MaxMidnights == 1

\* the first BatchSize ids of TEST_LOAN_IDS
TEST_LOAN_IDS ==
    SubSeq(<<"8", "3475", "11883", "2118", "7150", "12129", "107", "3523",
             "16192", "18691">>, 1, BatchSize)

\* a loan is plain in a respect when it has a positive term, both dates and
\* a repayment; the loans of a run are plain in all respects but at most one
Plain(terms, table) ==
    Cardinality({ respect \in {"term", "dates", "repayments"} :
                    \/ respect = "term" /\ terms.loan_term_days = 0
                    \/ respect = "dates" /\ IsNone(terms.disbursement_date)
                    \/ respect = "repayments" /\ table = <<>> }) <= 1

\* the loans_ajoloan rows and repayment tables of the loans a run can meet
BatchLoans ==
    { loan \in [terms : LoanTerms, table : Histories] :
          /\ loan.terms.loan_amount = Dec(1000)
          /\ IsNone(loan.terms.fee_amount)
          /\ loan.terms.loan_term_days \in {0, 30}
          /\ IsNone(loan.terms.disbursement_date)
                 <=> IsNone(loan.terms.first_payment_due_date)
          /\ Len(loan.table) <= 1
          /\ \A i \in 1 .. Len(loan.table) :
                 /\ loan.table[i].payment_date = 4
                 /\ IsNone(loan.table[i].is_reversed)
          /\ Plain(loan.terms, loan.table) }

\* the row the engine stored for a loan as of a date, a NULL loan amount
\* counting as 0
StoredRow(dj, table, day) ==
    IF IsNone(dj.loan_amount)
    THEN [computeSnapshot([dj EXCEPT !.loan_amount = Dec(0)],
                          get_django_repayments(table), day)
             EXCEPT !.loan_amount = None]
    ELSE computeSnapshot(dj, get_django_repayments(table), day)

\* what the two databases hold for one loan id: both rows; no loans_ajoloan
\* row; no metrics row; a loans_ajoloan row whose loan_amount is NULL
DatabaseRows(day) ==
    LET found == { loan \in BatchLoans : Recorded(loan.table, day) }
        any   == CHOOSE loan \in found :
                     loan.terms.loan_term_days = 30 /\ loan.table = <<>>
    IN  { [django_data |-> loan.terms, table |-> loan.table,
           metrics_data |-> StoredRow(loan.terms, loan.table, day)] :
              loan \in found }
        \cup
        { [django_data |-> None, table |-> <<>>,
           metrics_data |-> StoredRow(any.terms, any.table, day)],
          [django_data |-> any.terms, table |-> any.table,
           metrics_data |-> None],
          [django_data |-> [any.terms EXCEPT !.loan_amount = None],
           table |-> any.table,
           metrics_data |->
               StoredRow([any.terms EXCEPT !.loan_amount = None],
                         any.table, day)] }

\* what is kept of a loan when the next one is started
Kept ==
    [ django_data |-> django_data, table |-> loans_ajorepayment,
      metrics_data |-> metrics_data, expected |-> expected,
      validator |-> validator ]

\* a printed line about a loan
Line(loan_id, text) == [loan |-> loan_id, text |-> text]

\* the id of the loan under validation
loan_id == TEST_LOAN_IDS[loan_index]

BatchInit ==
    /\ evaluation_date \in { day \in Today : day >= 4 }
    /\ today = evaluation_date
    /\ django_data = None
    /\ loans_ajorepayment = <<>>
    /\ metrics_data = None
    /\ django_repayments = <<>>
    /\ expected = NoExpectation
    /\ validator = NewValidator
    /\ raised = "none"
    /\ pc = "idle"
    /\ start_date = None
    /\ end_date = None
    /\ current = None
    /\ days = 0
    /\ returned = None
    /\ cal_pc = "idle"
    /\ loan_index = 0
    /\ main_pc = "for"
    /\ stdout = <<>>
    /\ exit_status = None
    /\ previous = Kept
    /\ ScriptsIdle

\* the system clock passes midnight
Midnight ==
    /\ main_pc \in {"for", "try", "print_summary"}
    /\ today < evaluation_date + MaxMidnights
    /\ today' = today + 1
    /\ UNCHANGED <<django_data, loans_ajorepayment, metrics_data,
                   django_repayments, expected, validator, raised, pc,
                   cal_vars, main_vars,
                   script_vars>>

\* for loan_id in TEST_LOAN_IDS: try: validator.validate_loan(loan_id)
ForLoan ==
    /\ main_pc = "for"
    /\ loan_index < Len(TEST_LOAN_IDS)
    /\ \E rows \in DatabaseRows(evaluation_date) :
           /\ django_data' = rows.django_data
           /\ loans_ajorepayment' = rows.table
           /\ metrics_data' = rows.metrics_data
    /\ previous' = Kept
    /\ loan_index' = loan_index + 1
    /\ stdout' = Append(stdout, Line(TEST_LOAN_IDS[loan_index + 1],
                                     "Validating Loan ID"))
    /\ django_repayments' = <<>>
    /\ expected' = NoExpectation
    /\ raised' = "none"
    /\ pc' = "validate_loan"
    /\ main_pc' = "try"
    /\ UNCHANGED <<today, validator, cal_vars, evaluation_date, exit_status,
                   script_vars>>

\* if not django_data: print ERROR; return
DjangoNotFound ==
    /\ pc = "validate_loan"
    /\ IsNone(django_data)
    /\ stdout' = Append(stdout, Line(loan_id,
                                     "ERROR: not found in Django database"))
    /\ pc' = "done"
    /\ UNCHANGED <<django_data, loans_ajorepayment, today, metrics_data,
                   django_repayments, expected, validator, raised, cal_vars,
                   evaluation_date, loan_index, main_pc, exit_status,
                   previous,
                   script_vars>>

\* if not metrics_data: print ERROR; return
MetricsNotFound ==
    /\ pc = "validate_loan"
    /\ ~IsNone(django_data)
    /\ IsNone(metrics_data)
    /\ stdout' = Append(stdout,
                     Line(loan_id,
                          "ERROR: not found in SeedsMetrics database"))
    /\ pc' = "done"
    /\ UNCHANGED <<django_data, loans_ajorepayment, today, metrics_data,
                   django_repayments, expected, validator, raised, cal_vars,
                   evaluation_date, loan_index, main_pc, exit_status,
                   previous,
                   script_vars>>

\* validate_loan returned
Returned ==
    /\ main_pc = "try"
    /\ pc = "done"
    /\ raised = "none"
    /\ main_pc' = "for"
    /\ UNCHANGED <<loan_vars, cal_vars, evaluation_date, loan_index, stdout,
                   exit_status, previous,
                   script_vars>>

\* a class the except clause of a too narrow handler would name
CaughtInLoop_type_errors(exception) == exception = "TypeError"

\* except Exception: every exception validate_loan raises is an Exception
CaughtInLoop(exception) ==
    exception \in {"TypeError", "ZeroDivisionError", "InvalidOperation"}

\* validate_loan raised: the handler inside the loop, else the one around it
Excepted ==
    /\ main_pc = "try"
    /\ pc = "done"
    /\ raised # "none"
    /\ IF CaughtInLoop(raised)
       THEN /\ stdout' = Append(stdout, Line(loan_id,
                                             "ERROR validating loan"))
            /\ main_pc' = "for"
            /\ exit_status' = exit_status
       ELSE /\ stdout' = Append(stdout, Line(loan_id, "FATAL ERROR"))
            /\ main_pc' = "exited"
            /\ exit_status' = Some(1)
    /\ UNCHANGED <<loan_vars, cal_vars, evaluation_date, loan_index,
                   previous,
                   script_vars>>

\* validator.print_summary()
print_summary ==
    /\ main_pc = "for"
    /\ loan_index = Len(TEST_LOAN_IDS)
    /\ stdout' = Append(stdout, Line("", "TEST SUMMARY"))
    /\ main_pc' = "print_summary"
    /\ UNCHANGED <<loan_vars, cal_vars, evaluation_date, loan_index,
                   exit_status, previous,
                   script_vars>>

\* sys.exit(0 if validator.failed_tests == 0 else 1)
SysExit ==
    /\ main_pc = "print_summary"
    /\ exit_status' = Some(IF validator.failed_tests = 0 THEN 0 ELSE 1)
    /\ main_pc' = "exited"
    /\ UNCHANGED <<loan_vars, cal_vars, evaluation_date, loan_index, stdout,
                   previous,
                   script_vars>>

BatchNext ==
    \/ Midnight
    \/ ForLoan
    \/ DjangoNotFound
    \/ MetricsNotFound
    \/ Returned
    \/ Excepted
    \/ print_summary
    \/ SysExit
    \/ FetchLoan
    \/ validate_basic_fields
    \/ validate_repayment_totals
    \/ validate_outstanding_balances
    \/ validate_business_days_calculations
    \/ validate_actual_outstanding
    \/ validate_dpd_calculations
    \/ validate_repayment_delay_rate
    \/ validate_fimr_tagging

BatchSpec == BatchInit /\ [][BatchNext]_vars

----------------------------------------------------------------------------
(* Loans evaluated in parallel: threads that call assert_equal on one      *)
(* MetricsValidator.  An augmented assignment to an attribute is a load    *)
(* and a store, and another thread may run between the two.                *)

\* the number of loans evaluated in parallel
MaxThreads == 2

\* the largest number of comparisons one loan's evaluation makes
MaxCalls == 2

Threads == 1 .. MaxThreads

\* the outcomes of the comparisons of one loan's evaluation, in order
Outcomes == UNION { [1 .. n -> BOOLEAN] : n \in 1 .. MaxCalls }

\* the idle state of validate_loan, count_business_days and main
ValidationIdle ==
    /\ django_data = None
    /\ loans_ajorepayment = <<>>
    /\ today = 0
    /\ metrics_data = None
    /\ django_repayments = <<>>
    /\ expected = NoExpectation
    /\ raised = "none"
    /\ pc = "idle"
    /\ start_date = None
    /\ end_date = None
    /\ current = None
    /\ days = 0
    /\ returned = None
    /\ cal_pc = "idle"
    /\ evaluation_date = 0
    /\ loan_index = 0
    /\ main_pc = "idle"
    /\ stdout = <<>>
    /\ exit_status = None
    /\ previous = None

\* everything but the validator's counters and results
beside_validator == <<django_data, loans_ajorepayment, today, metrics_data,
                      django_repayments, expected, raised, pc, cal_vars,
                      main_vars, sync_vars, conn_vars>>

ParallelInit ==
    /\ ValidationIdle
    /\ SyncIdle
    /\ ConnIdle
    /\ validator = NewValidator
    /\ outcome \in [Threads -> Outcomes]
    /\ call = [t \in Threads |-> 0]
    /\ register = [t \in Threads |-> 0]
    /\ thread_pc = [t \in Threads |-> "assert_equal"]

\* passed, in the call thread t is in
passed_now(t) == outcome[t][call[t]]

\* self.total_tests += 1: the load
LoadTotal(t) ==
    /\ thread_pc[t] = "assert_equal"
    /\ call[t] < Len(outcome[t])
    /\ call' = [call EXCEPT ![t] = call[t] + 1]
    /\ register' = [register EXCEPT ![t] = validator.total_tests]
    /\ thread_pc' = [thread_pc EXCEPT ![t] = "store_total"]
    /\ UNCHANGED <<validator, outcome, beside_validator>>

\* self.total_tests += 1: the store
StoreTotal(t) ==
    /\ thread_pc[t] = "store_total"
    /\ validator' = [validator EXCEPT !.total_tests = register[t] + 1]
    /\ thread_pc' = [thread_pc EXCEPT ![t] = "load_count"]
    /\ UNCHANGED <<outcome, call, register, beside_validator>>

\* self.passed_tests += 1 or self.failed_tests += 1: the load
LoadCount(t) ==
    /\ thread_pc[t] = "load_count"
    /\ register' = [register EXCEPT ![t] =
                        IF passed_now(t) THEN validator.passed_tests
                        ELSE validator.failed_tests]
    /\ thread_pc' = [thread_pc EXCEPT ![t] = "store_count"]
    /\ UNCHANGED <<validator, outcome, call, beside_validator>>

\* self.passed_tests += 1 or self.failed_tests += 1: the store
StoreCount(t) ==
    /\ thread_pc[t] = "store_count"
    /\ validator' = IF passed_now(t)
                    THEN [validator EXCEPT !.passed_tests = register[t] + 1]
                    ELSE [validator EXCEPT !.failed_tests = register[t] + 1]
    /\ thread_pc' = [thread_pc EXCEPT ![t] = "append"]
    /\ UNCHANGED <<outcome, call, register, beside_validator>>

\* self.test_results.append(...); return passed
AppendResult(t) ==
    /\ thread_pc[t] = "append"
    /\ validator' = [validator EXCEPT !.test_results =
                         Append(@, [test |-> <<t, call[t]>>,
                                    passed |-> passed_now(t)])]
    /\ thread_pc' = [thread_pc EXCEPT ![t] =
                         IF call[t] = Len(outcome[t]) THEN "done"
                         ELSE "assert_equal"]
    /\ UNCHANGED <<outcome, call, register, beside_validator>>

ParallelNext ==
    \E t \in Threads :
        \/ LoadTotal(t)
        \/ StoreTotal(t)
        \/ LoadCount(t)
        \/ StoreCount(t)
        \/ AppendResult(t)

ParallelSpec == ParallelInit /\ [][ParallelNext]_vars

----------------------------------------------------------------------------
(* validate_loan over a stored row one of whose amounts is off the value   *)
(* the suite expects.                                                      *)

\* the amounts a stored monetary column may be off by: 0, 0.005, 0.01, 0.02
\* either way
MoneyDrifts == { Norm(k, 200) : k \in {-4, -2, -1, 0, 1, 2, 4} }

\* the amounts the stored interest rate may be off by: 0, 0.00005, 0.0001,
\* 0.0002 either way
RateDrifts == { Norm(k, 20000) : k \in {-4, -2, -1, 0, 1, 2, 4} }

\* the stored columns the suite compares within the monetary tolerance
MoneyColumns ==
    { "loan_amount", "total_principal_paid", "total_interest_paid",
      "total_fees_paid", "total_repayments", "principal_outstanding",
      "interest_outstanding", "fees_outstanding", "total_outstanding",
      "daily_repayment_amount", "actual_outstanding" }

\* the stored row m with one column off by drift
Drifted(m, column, drift) ==
    IF column \in {"loan_amount", "interest_rate"}
    THEN [m EXCEPT ![column] = DAdd(@, drift)]
    ELSE [m EXCEPT ![column] = Some(DAdd(Val(@), drift))]

DriftInit ==
    /\ today \in { day \in Today : day >= 4 }
    /\ \E loan \in BatchLoans :
           /\ Recorded(loan.table, today)
           /\ django_data = loan.terms
           /\ loans_ajorepayment = loan.table
    /\ \E column \in MoneyColumns \cup {"interest_rate"} :
           \E drift \in IF column = "interest_rate" THEN RateDrifts
                        ELSE MoneyDrifts :
               metrics_data =
                   Drifted(StoredRow(django_data, loans_ajorepayment, today),
                           column, drift)
    /\ django_repayments = <<>>
    /\ expected = NoExpectation
    /\ validator = NewValidator
    /\ raised = "none"
    /\ pc = "validate_loan"
    /\ start_date = None
    /\ end_date = None
    /\ current = None
    /\ days = 0
    /\ returned = None
    /\ cal_pc = "idle"
    /\ evaluation_date = today
    /\ loan_index = 0
    /\ main_pc = "idle"
    /\ stdout = <<>>
    /\ exit_status = None
    /\ previous = None
    /\ ScriptsIdle

DriftSpec == DriftInit /\ [][Next]_vars

----------------------------------------------------------------------------
(* The officer syncs: step3_sync_emails of sync_officer_emails.py and      *)
(* step3_sync_officer_data of investigate_staff_agent_loans.py.  A text    *)
(* column holds NULL (None), the empty string or a string.                 *)

\* the largest number of rows fetched from Django and of keys in the table
MaxRows == 3

\* batch_size, scaled from 1000 to the tables of the model
batch_size == 2

\* the runs of a script over the same source rows
MaxRuns == 2

Keys == 1 .. MaxRows

\* everything but the state of the sync
beside_sync == <<loan_vars, cal_vars, main_vars, thread_vars, conn_vars>>

\* officer_email IS NULL OR officer_email = '', for any text column
Empty(text) == text = None \/ text = Some("")

\* a row of officers or of loans in Seeds Metrics
TableRow(officer_id, officer_name, officer_email) ==
    [ officer_id |-> officer_id, officer_name |-> officer_name,
      officer_email |-> officer_email, officer_phone |-> None,
      branch |-> None, user_type |-> Some("STAFF_AGENT"), updated_at |-> 0 ]

\* the rows officers can hold under a key; None for no row
OfficerRows ==
    { None } \cup
    { TableRow(Some("7"), Some("old"), email) :
          email \in {None, Some(""), Some("old@seeds")} }

\* the rows loans can hold under a key; None for no row
LoanRows ==
    { None, TableRow(None, None, None), TableRow(Some("7"), Some(""), None),
      TableRow(Some("9"), Some("old"), None) }

\* step2_fetch_emails_from_django: a row of accounts_customuser whose email
\* is neither NULL nor empty
DjangoOfficer(key) ==
    [ key |-> key, officer_id |-> Some("7"), officer_name |-> Some("name"),
      officer_email |-> Some("new@seeds"), officer_phone |-> Some("080"),
      branch |-> None ]

\* query_django_loans: a disbursed loan with its agent, whose name is
\* COALESCE(u.username, u.email)
DjangoLoan(key, officer_name) ==
    [ key |-> key, officer_id |-> Some("7"), officer_name |-> officer_name,
      officer_email |-> Some("new@seeds"), officer_phone |-> Some("080"),
      branch |-> Some("Unknown") ]

\* the rows a script fetches, for the keys 1 .. n
Sources(which) ==
    LET fetched ==
            IF which = "sync_officer_emails"
            THEN { DjangoOfficer(k) : k \in Keys }
            ELSE { DjangoLoan(k, name) :
                       k \in Keys, name \in {Some(""), Some("name")} }
    IN  UNION { { rows \in [1 .. n -> fetched] :
                      \A k \in 1 .. n : rows[k].key = k } :
                n \in 1 .. MaxRows }

SyncInit ==
    /\ ValidationIdle
    /\ validator = NewValidator
    /\ ThreadsIdle
    /\ ConnIdle
    /\ script \in {"sync_officer_emails", "investigate_staff_agent_loans"}
    /\ source \in Sources(script)
    /\ committed \in [Keys -> IF script = "sync_officer_emails"
                              THEN OfficerRows ELSE LoanRows]
    /\ pending = committed
    /\ loop_i = 0
    /\ updated_count = 0
    /\ run = 1
    /\ sync_pc = "for"

\* the WHERE clause of update_query on the row under the key
Matches(table, officer) ==
    /\ table[officer.key] # None
    /\ IF script = "sync_officer_emails"
       THEN Empty(table[officer.key].officer_email)
       ELSE \/ Empty(table[officer.key].officer_id)
            \/ Empty(table[officer.key].officer_name)

\* the SET clause of update_query
Updated(row, officer) ==
    IF script = "sync_officer_emails"
    THEN [row EXCEPT !.officer_email = officer.officer_email,
                     !.updated_at = run]
    ELSE [row EXCEPT !.officer_id = officer.officer_id,
                     !.officer_name = officer.officer_name,
                     !.officer_phone = officer.officer_phone,
                     !.branch = officer.branch,
                     !.updated_at = run]

\* cursor.execute(update_query, ...) went through: count the row, commit
\* when i % batch_size == 0
Execute ==
    /\ sync_pc = "for"
    /\ loop_i < Len(source)
    /\ LET officer == source[loop_i + 1]
           hit     == Matches(pending, officer)
           table   == IF hit
                      THEN [pending EXCEPT ![officer.key] =
                                Updated(@, officer)]
                      ELSE pending
       IN  /\ updated_count' = IF hit THEN updated_count + 1
                               ELSE updated_count
           /\ pending' = table
           /\ committed' = IF (loop_i + 1) % batch_size = 0 THEN table
                           ELSE committed
    /\ loop_i' = loop_i + 1
    /\ UNCHANGED <<script, source, run, sync_pc, beside_sync>>

\* cursor.execute raised: except Exception: seeds_conn.rollback(); continue
ExecuteRaised ==
    /\ sync_pc = "for"
    /\ loop_i < Len(source)
    /\ pending' = committed
    /\ loop_i' = loop_i + 1
    /\ UNCHANGED <<script, source, committed, updated_count, run, sync_pc,
                   beside_sync>>

\* seeds_conn.commit(); cursor.close(); return updated_count
FinalCommit ==
    /\ sync_pc = "for"
    /\ loop_i = Len(source)
    /\ committed' = pending
    /\ sync_pc' = "returned"
    /\ UNCHANGED <<script, source, pending, loop_i, updated_count, run,
                   beside_sync>>

\* the script is run again over the same source rows
Rerun ==
    /\ sync_pc = "returned"
    /\ run < MaxRuns
    /\ run' = run + 1
    /\ loop_i' = 0
    /\ updated_count' = 0
    /\ sync_pc' = "for"
    /\ UNCHANGED <<script, source, committed, pending, beside_sync>>

SyncNext ==
    \/ Execute
    \/ ExecuteRaised
    \/ FinalCommit
    \/ Rerun

SyncSpec == SyncInit /\ [][SyncNext]_vars

----------------------------------------------------------------------------
(* sync_loan_types.py: main's batches, each a temporary table, one UPDATE  *)
(* ... FROM and a commit.                                                  *)

\* a disbursed row of loans_ajoloan: loan_id, loan_type, verification_stage
AjoLoan(key, loan_type, verification_stage) ==
    [ key |-> key, loan_type |-> loan_type,
      verification_stage |-> verification_stage ]

\* the types and stages a loan can have in either database
TypesAndStages ==
    { <<None, None>>, <<Some("AJO"), None>>, <<Some("AJO"), Some("DONE")>> }

\* django_loans: the rows fetched, for the keys 1 .. n
DjangoLoans ==
    LET fetched == { AjoLoan(k, ts[1], ts[2]) :
                         k \in Keys, ts \in TypesAndStages }
    IN  UNION { { rows \in [1 .. n -> fetched] :
                      \A k \in 1 .. n : rows[k].key = k } :
                n \in 1 .. MaxRows }

\* the rows loans can hold under a key in Seeds Metrics; None for no row
MetricsLoans ==
    { None } \cup
    { [ loan_type |-> ts[1], verification_status |-> ts[2],
        officer_name |-> Some("old"), updated_at |-> 0 ] :
          ts \in TypesAndStages }

LoanTypesInit ==
    /\ ValidationIdle
    /\ validator = NewValidator
    /\ ThreadsIdle
    /\ ConnIdle
    /\ script = "sync_loan_types"
    /\ source \in DjangoLoans
    /\ committed \in [Keys -> MetricsLoans]
    /\ pending = committed
    /\ loop_i = 0
    /\ updated_count = 0
    /\ run = 1
    /\ sync_pc = "for"

\* a <> b as SQL has it: not true when either side is NULL
Distinct_not_equal(a, b) == a # None /\ b # None /\ a # b

\* a IS DISTINCT FROM b
Distinct(a, b) == a # b

\* batch = django_loans[i:i+batch_size]
batch == SubSeq(source, loop_i + 1, IMin(loop_i + batch_size, Len(source)))

\* the rows of temp_loan_updates the WHERE clause joins to the row under
\* key k
Joined(k) ==
    { n \in 1 .. Len(batch) :
          /\ batch[n].key = k
          /\ pending[k] # None
          /\ \/ Distinct(pending[k].loan_type, batch[n].loan_type)
             \/ Distinct(pending[k].verification_status,
                         batch[n].verification_stage) }

\* the batch's UPDATE loans ... FROM temp_loan_updates, counted by rowcount
\* and committed
UpdateBatch ==
    /\ sync_pc = "for"
    /\ script = "sync_loan_types"
    /\ loop_i < Len(source)
    /\ LET table == [k \in Keys |->
                        IF Joined(k) = {} THEN pending[k]
                        ELSE LET t == batch[CHOOSE n \in Joined(k) : TRUE]
                             IN  [pending[k] EXCEPT
                                      !.loan_type = t.loan_type,
                                      !.verification_status =
                                          t.verification_stage,
                                      !.updated_at = run]]
       IN  /\ pending' = table
           /\ committed' = table
    /\ updated_count' =
           updated_count + Cardinality({ k \in Keys : Joined(k) # {} })
    /\ loop_i' = loop_i + batch_size
    /\ UNCHANGED <<script, source, run, sync_pc, beside_sync>>

\* a statement of the batch raised: except Exception: sys.exit(1), the
\* connection closed without a commit
BatchRaised ==
    /\ sync_pc = "for"
    /\ script = "sync_loan_types"
    /\ loop_i < Len(source)
    /\ pending' = committed
    /\ sync_pc' = "exit_1"
    /\ UNCHANGED <<script, source, committed, loop_i, updated_count, run,
                   beside_sync>>

\* the loop is over: print Updated ... loans, the statistics, completed
Completed ==
    /\ sync_pc = "for"
    /\ script = "sync_loan_types"
    /\ loop_i >= Len(source)
    /\ sync_pc' = "completed"
    /\ UNCHANGED <<script, source, committed, pending, loop_i, updated_count,
                   run, beside_sync>>

\* main is run again right away
RunAgain ==
    /\ sync_pc = "completed"
    /\ run < MaxRuns
    /\ run' = run + 1
    /\ loop_i' = 0
    /\ updated_count' = 0
    /\ sync_pc' = "for"
    /\ UNCHANGED <<script, source, committed, pending, beside_sync>>

LoanTypesNext ==
    \/ UpdateBatch
    \/ BatchRaised
    \/ Completed
    \/ RunAgain

LoanTypesSpec == LoanTypesInit /\ [][LoanTypesNext]_vars

-----------------------------------------------------------------------------
(* main of each script: two connections are opened, both databases are     *)
(* queried, and the finally block closes the connections.                  *)

\* the scripts whose main opens the two databases
Scripts ==
    {"test_loan_metrics_validation", "find_missing_loans",
     "sync_officer_emails", "sync_loan_types",
     "investigate_staff_agent_loans"}

\* the names main gives the two connections, in the order it connects,
\* which is the order the finally block closes them in
Connections(s) ==
    CASE s = "test_loan_metrics_validation" -> <<"django_db", "metrics_db">>
      [] s = "sync_loan_types" -> <<"django_conn", "metrics_conn">>
      [] OTHER -> <<"seeds_conn", "django_conn">>

\* main connects inside its try block
ConnectsInTry(s) ==
    s \in {"test_loan_metrics_validation", "find_missing_loans",
           "sync_officer_emails"}

\* DatabaseConnection.close: if self.conn
ClosesGuarded(s) == s = "test_loan_metrics_validation"

\* the steps of main that can raise
Faults ==
    {<<"none", 0>>, <<"connect", 1>>, <<"connect", 2>>, <<"query", 1>>,
     <<"query", 2>>}

\* everything but the connections of main
beside_conn == <<loan_vars, cal_vars, main_vars, thread_vars, sync_vars>>

ConnInit ==
    /\ ValidationIdle
    /\ validator = NewValidator
    /\ ThreadsIdle
    /\ SyncIdle
    /\ entry \in Scripts
    /\ fault \in Faults
    /\ bound = {}
    /\ opened = {}
    /\ closed = {}
    /\ cleanup = "none"
    /\ conn_pc = <<"connect", 1>>

\* psycopg2.connect for the k-th connection: the name is bound when the call
\* returns; an exception reaches the except block only from inside the try
Connect(k) ==
    /\ conn_pc = <<"connect", k>>
    /\ IF fault = <<"connect", k>>
       THEN /\ conn_pc' = IF ConnectsInTry(entry) THEN <<"except", 0>>
                                                  ELSE <<"ended", 0>>
            /\ UNCHANGED <<bound, opened>>
       ELSE /\ bound' = bound \cup {Connections(entry)[k]}
            /\ opened' = opened \cup {Connections(entry)[k]}
            /\ conn_pc' = IF k = 1 THEN <<"connect", 2>> ELSE <<"query", 1>>
    /\ UNCHANGED <<entry, fault, closed, cleanup, beside_conn>>

\* the body of the try block queries the one database, then the other
Query(k) ==
    /\ conn_pc = <<"query", k>>
    /\ conn_pc' = IF fault = <<"query", k>> THEN <<"except", 0>>
                  ELSE IF k = 1 THEN <<"query", 2>>
                  ELSE <<"close", 1>>
    /\ UNCHANGED <<entry, fault, bound, opened, closed, cleanup,
                   beside_conn>>

\* except Exception: the error is printed (and sys.exit(1) called, in some
\* scripts); the finally block follows
Except ==
    /\ conn_pc = <<"except", 0>>
    /\ conn_pc' = <<"close", 1>>
    /\ UNCHANGED <<entry, fault, bound, opened, closed, cleanup,
                   beside_conn>>

\* finally: the k-th close.  A name that was never bound raises
\* UnboundLocalError, which ends the block; DatabaseConnection.close skips a
\* connection that was not made
Close(k) ==
    /\ conn_pc = <<"close", k>>
    /\ IF Connections(entry)[k] \in bound
       THEN /\ closed' = closed \cup {Connections(entry)[k]}
            /\ conn_pc' = IF k = 1 THEN <<"close", 2>> ELSE <<"ended", 0>>
            /\ UNCHANGED cleanup
       ELSE IF ClosesGuarded(entry)
       THEN /\ conn_pc' = IF k = 1 THEN <<"close", 2>> ELSE <<"ended", 0>>
            /\ UNCHANGED <<closed, cleanup>>
       ELSE /\ cleanup' = "UnboundLocalError"
            /\ conn_pc' = <<"ended", 0>>
            /\ UNCHANGED closed
    /\ UNCHANGED <<entry, fault, bound, opened, beside_conn>>

ConnNext ==
    \/ \E k \in 1 .. 2 : Connect(k)
    \/ \E k \in 1 .. 2 : Query(k)
    \/ Except
    \/ \E k \in 1 .. 2 : Close(k)

ConnSpec == ConnInit /\ [][ConnNext]_vars

----------------------------------------------------------------------------
(* Properties.  Each is stated from the specification's wording, over the  *)
(* values the actions left in the state.                                   *)

\* floor(x) of a Decimal
Floor(a) == a.n \div a.d

\* x rounded toward zero: floor(x) for x >= 0, -floor(-x) for x < 0
TowardZero(a) == IF a.n >= 0 THEN Floor(a) ELSE -Floor([n |-> -a.n, d |-> a.d])

\* max(0, x) of a Decimal
ClampZero(a) == IF a.n < 0 THEN Dec(0) ELSE a

\* the days of [first, last], endpoints included, that fall on Monday to
\* Friday; 0 when a date is absent
WeekdaysBetween(first, last) ==
    IF IsNone(first) \/ IsNone(last) THEN 0
    ELSE Cardinality({ d \in Val(first) .. Val(last) : d % 7 \in 0 .. 4 })

\* the stored columns the delinquency formulas read
StoredDue == Val(metrics_data.repayment_days_due_today)

StoredDaily == Val(metrics_data.daily_repayment_amount)

StoredTotal == Val(metrics_data.total_repayments)

StoredOutstanding == Val(metrics_data.actual_outstanding)

StoredPaid == Val(metrics_data.repayment_days_paid)

\* the stored row with one column NULL
Without(column) == [metrics_data EXCEPT ![column] = None]

\* C1, as stated: currentDPD = max(0, repaymentDaysDueToday -
\* floor(repaymentDaysPaid)) when actualOutstanding > 0, and 0 when
\* actualOutstanding is 0 or absent.
C1_DpdFloor ==
    ~IsNone(expected.expected_dpd) =>
        /\ Val(expected.expected_dpd) =
            IF StoredOutstanding.n > 0
            THEN IMax(0, StoredDue - Floor(StoredPaid))
            ELSE 0
        /\ expected_dpd(Without("actual_outstanding")) = 0

\* C1, amended: currentDPD = max(0, repaymentDaysDueToday - t) when
\* actualOutstanding > 0, where t is repaymentDaysPaid rounded toward zero
\* (floor(repaymentDaysPaid) whenever repaymentDaysPaid >= 0), and 0 when
\* actualOutstanding is 0 or absent.
C1_DpdTowardZero ==
    ~IsNone(expected.expected_dpd) =>
        /\ StoredOutstanding.n > 0 =>
               /\ Val(expected.expected_dpd)
                      = IMax(0, StoredDue - TowardZero(StoredPaid))
               /\ StoredPaid.n >= 0 =>
                      Val(expected.expected_dpd)
                          = IMax(0, StoredDue - Floor(StoredPaid))
        /\ StoredOutstanding.n = 0 => Val(expected.expected_dpd) = 0
        /\ expected_dpd(Without("actual_outstanding")) = 0

\* C1, witness: a DPD was computed for a loan behind schedule whose
\* repaymentDaysPaid is negative and not whole.
C1_Witness ==
    /\ ~IsNone(expected.expected_dpd)
    /\ StoredOutstanding.n > 0
    /\ StoredPaid.n < 0
    /\ StoredPaid.d > 1
    /\ Val(expected.expected_dpd) = StoredDue

\* the schedule-based shortfall dailyRepaymentAmount * repaymentDaysDueToday
\* - totalRepayments
Shortfall == DSub(DMul(StoredDaily, Dec(StoredDue)), StoredTotal)

\* C2, as stated: actualOutstanding = max(0, dailyRepaymentAmount *
\* repaymentDaysDueToday - totalRepayments); it is never negative and is 0
\* when dailyRepaymentAmount or repaymentDaysDueToday is zero or absent.
C2_ShortfallAlways ==
    ~IsNone(expected.expected_actual_outstanding) =>
        /\ Val(expected.expected_actual_outstanding) = ClampZero(Shortfall)
        /\ Val(expected.expected_actual_outstanding).n >= 0
        /\ (StoredDaily.n = 0 \/ StoredDue = 0) =>
               Val(expected.expected_actual_outstanding) = Dec(0)
        /\ expected_actual_outstanding(Without("daily_repayment_amount"))
               = Dec(0)
        /\ expected_actual_outstanding(Without("repayment_days_due_today"))
               = Dec(0)

\* C2, amended: actualOutstanding = max(0, dailyRepaymentAmount *
\* repaymentDaysDueToday - totalRepayments) when dailyRepaymentAmount and
\* repaymentDaysDueToday are both present and non-zero, and 0 when either is
\* zero or absent; it is never negative.
C2_ShortfallWhenScheduled ==
    ~IsNone(expected.expected_actual_outstanding) =>
        /\ (StoredDaily.n # 0 /\ StoredDue # 0) =>
               Val(expected.expected_actual_outstanding) = ClampZero(Shortfall)
        /\ (StoredDaily.n = 0 \/ StoredDue = 0) =>
               Val(expected.expected_actual_outstanding) = Dec(0)
        /\ expected_actual_outstanding(Without("daily_repayment_amount"))
               = Dec(0)
        /\ expected_actual_outstanding(Without("repayment_days_due_today"))
               = Dec(0)
        /\ Val(expected.expected_actual_outstanding).n >= 0

\* C2, witness: an actual outstanding was computed for a loan with a
\* schedule, some repayment and a positive shortfall.
C2_Witness ==
    /\ ~IsNone(expected.expected_actual_outstanding)
    /\ StoredDaily.n > 0
    /\ StoredDue > 0
    /\ StoredTotal.n > 0
    /\ Val(expected.expected_actual_outstanding).n > 0

\* C3, as stated: repaymentDaysDueToday = min(businessDaysBetween(
\* disbursementDate, evaluationDate), termDays), and 0 <=
\* repaymentDaysDueToday <= termDays.
C3_DueWithinTerm ==
    /\ StoredDue = IMin(WeekdaysBetween(django_data.disbursement_date,
                                        Some(today)),
                        django_data.loan_term_days)
    /\ 0 <= StoredDue
    /\ StoredDue <= django_data.loan_term_days

\* C3, amended: repaymentDaysDueToday = min(businessDaysBetween(
\* disbursementDate, evaluationDate), termDays), so repaymentDaysDueToday <=
\* termDays, and 0 <= repaymentDaysDueToday whenever termDays >= 0.
C3_DueCapped ==
    pc # "idle" =>
        /\ StoredDue = IMin(WeekdaysBetween(django_data.disbursement_date,
                                            Some(today)),
                            django_data.loan_term_days)
        /\ StoredDue <= django_data.loan_term_days
        /\ django_data.loan_term_days >= 0 => 0 <= StoredDue

\* C3, witness: a loan whose business days since disbursement, a weekend
\* included in the interval, exceed its term, so that the cap applies.
C3_Witness ==
    /\ pc = "done"
    /\ django_data.loan_term_days > 0
    /\ ~IsNone(django_data.disbursement_date)
    /\ today - Val(django_data.disbursement_date) >= 4
    /\ StoredDue = django_data.loan_term_days
    /\ Val(metrics_data.business_days_since_disbursement) > StoredDue

\* the fee of the loan terms, an absent fee counting as 0
FeeOrZero ==
    IF IsNone(django_data.fee_amount) THEN Dec(0)
    ELSE Val(django_data.fee_amount)

\* principal 1000, rate 0.15, fee 50, paid 500 / 75 / 50
BalanceScenario ==
    /\ django_data.loan_amount = Dec(1000)
    /\ django_data.interest_rate = Norm(15, 100)
    /\ django_data.fee_amount = Some(Dec(50))
    /\ metrics_data.total_principal_paid = Some(Dec(500))
    /\ metrics_data.total_interest_paid = Some(Dec(75))
    /\ metrics_data.total_fees_paid = Some(Dec(50))

\* C4: principalOutstanding = principal - totalPrincipalPaid, unclamped and
\* negative when the principal is overpaid; interestOutstanding = max(0,
\* principal * interestRate - totalInterestPaid); feesOutstanding = max(0,
\* fee - totalFeesPaid), an absent fee counting as 0; principal 1000, rate
\* 0.15, fee 50, paid 500/75/50 gives 500, 75, 0 and total 575.
C4_OutstandingBalances ==
    ~IsNone(expected.expected_total_outstanding) =>
        /\ Val(expected.expected_principal_outstanding)
               = DSub(django_data.loan_amount,
                      Val(metrics_data.total_principal_paid))
        /\ DLt(django_data.loan_amount, Val(metrics_data.total_principal_paid))
               => Val(expected.expected_principal_outstanding).n < 0
        /\ Val(expected.expected_interest_outstanding)
               = ClampZero(DSub(DMul(django_data.loan_amount,
                                     django_data.interest_rate),
                                Val(metrics_data.total_interest_paid)))
        /\ Val(expected.expected_fees_outstanding)
               = ClampZero(DSub(FeeOrZero, Val(metrics_data.total_fees_paid)))
        /\ Val(expected.expected_interest_outstanding).n >= 0
        /\ Val(expected.expected_fees_outstanding).n >= 0
        /\ BalanceScenario =>
               /\ expected.expected_principal_outstanding = Some(Dec(500))
               /\ expected.expected_interest_outstanding = Some(Dec(75))
               /\ expected.expected_fees_outstanding = Some(Dec(0))
               /\ expected.expected_total_outstanding = Some(Dec(575))

\* C4, witness: the balances of the scenario loan were computed.
C4_Witness ==
    /\ BalanceScenario
    /\ expected.expected_total_outstanding = Some(Dec(575))

\* C5: totalOutstanding = principalOutstanding + interestOutstanding +
\* feesOutstanding exactly, also when principalOutstanding is negative.
C5_SumIdentity ==
    /\ ~IsNone(expected.expected_total_outstanding) =>
           Val(expected.expected_total_outstanding)
               = DAdd(Val(expected.expected_principal_outstanding),
                      DAdd(Val(expected.expected_interest_outstanding),
                           Val(expected.expected_fees_outstanding)))
    /\ pc # "idle" =>
           Val(metrics_data.total_outstanding)
               = DAdd(Val(metrics_data.principal_outstanding),
                      DAdd(Val(metrics_data.interest_outstanding),
                           Val(metrics_data.fees_outstanding)))

\* C5, witness: a total was computed for a loan whose principal is overpaid
\* while fees are still outstanding.
C5_Witness ==
    /\ ~IsNone(expected.expected_total_outstanding)
    /\ Val(expected.expected_principal_outstanding).n < 0
    /\ Val(expected.expected_fees_outstanding).n > 0

\* C6: repaymentAmount = principal * (1 + interestRate) + fee;
\* dailyRepaymentAmount = repaymentAmount / termDays when termDays > 0; when
\* termDays <= 0 dailyRepaymentAmount is 0 and repaymentDaysPaid is left
\* undefined; repaymentDaysPaid, where defined, is totalRepayments /
\* dailyRepaymentAmount; no division by zero is performed.
C6_NoDivisionByZero ==
    /\ raised # "ZeroDivisionError"
    /\ ~IsNone(expected.repayment_amount) =>
           Val(expected.repayment_amount)
               = DAdd(DAdd(django_data.loan_amount,
                           DMul(django_data.loan_amount,
                                django_data.interest_rate)),
                      FeeOrZero)
    /\ ~IsNone(expected.expected_daily_repayment) =>
           /\ django_data.loan_term_days > 0 =>
                  DMul(Val(expected.expected_daily_repayment),
                       Dec(django_data.loan_term_days))
                      = Val(expected.repayment_amount)
           /\ django_data.loan_term_days <= 0 =>
                  /\ Val(expected.expected_daily_repayment) = Dec(0)
                  /\ IsNone(expected.expected_repayment_days_paid)
           /\ ~IsNone(expected.expected_repayment_days_paid) =>
                  /\ StoredDaily.n > 0
                  /\ DMul(Val(expected.expected_repayment_days_paid),
                          StoredDaily) = StoredTotal

\* C6, witness: the daily amount of a loan of term 0 was computed, with
\* repayments on record.
C6_Witness ==
    /\ django_data.loan_term_days = 0
    /\ django_data.loan_amount.n > 0
    /\ StoredTotal.n > 0
    /\ expected.expected_daily_repayment = Some(Dec(0))
    /\ pc = "done"
    /\ raised = "none"

\* the sum of a column over all rows of the table, a row whose reversal
\* flag is true contributing nothing
RECURSIVE CountedSum(_, _, _)
CountedSum(table, field, i) ==
    IF i = 0 THEN Dec(0)
    ELSE DAdd(CountedSum(table, field, i - 1),
              IF table[i].is_reversed = Some(TRUE) THEN Dec(0)
              ELSE table[i][field])

\* the table with its rows rearranged by the permutation p
Rearranged(table, p) == [i \in 1 .. Len(table) |-> table[p[i]]]

\* the summed columns and the totals they give
SummedColumns ==
    { <<"principal_paid", "expected_principal">>,
      <<"interest_paid", "expected_interest">>,
      <<"fees_paid", "expected_fees">>,
      <<"payment_amount", "expected_total">> }

\* C7: each of the four paid totals is the sum of its column over exactly
\* the entries whose reversal flag is false or absent, a reversed entry
\* contributing nothing, and no permutation of the sequence changes a total
\* (the rearranged histories are summed once per loan, when the validation
\* of the loan is done).
C7_TotalsOverNotReversed ==
    ~IsNone(expected.expected_total) =>
        \A c \in SummedColumns :
            /\ Val(expected[c[2]])
                   = CountedSum(loans_ajorepayment, c[1],
                                Len(loans_ajorepayment))
            /\ pc = "done" =>
                   \A p \in Permutations(1 .. Len(loans_ajorepayment)) :
                       SumOf(get_django_repayments(
                                 Rearranged(loans_ajorepayment, p)), c[1])
                           = Val(expected[c[2]])

\* C7, witness: totals were computed over a history holding an entry with
\* no reversal flag followed by a reversed entry.
C7_Witness ==
    /\ ~IsNone(expected.expected_total)
    /\ Len(loans_ajorepayment) = 2
    /\ IsNone(loans_ajorepayment[1].is_reversed)
    /\ loans_ajorepayment[2].is_reversed = Some(TRUE)
    /\ expected.expected_total = Some(loans_ajorepayment[1].payment_amount)

\* every row of the history carries a true reversal flag
NothingRepaid ==
    \A i \in 1 .. Len(loans_ajorepayment) :
        loans_ajorepayment[i].is_reversed = Some(TRUE)

\* C8: for a loan with no non-reversed repayment the four paid totals are 0,
\* the first-repayment and last-repayment dates are null, principalOutstanding
\* equals principal, and the evaluation ends without an error.
C8_NothingRepaid ==
    (pc # "idle" /\ NothingRepaid) =>
        /\ raised = "none"
        /\ IsNone(metrics_data.first_payment_received_date)
        /\ IsNone(metrics_data.days_since_last_repayment)
        /\ ~IsNone(expected.expected_total) =>
               \A c \in SummedColumns : expected[c[2]] = Some(Dec(0))
        /\ ~IsNone(expected.expected_principal_outstanding) =>
               Val(expected.expected_principal_outstanding)
                   = django_data.loan_amount

\* C8, witness: the validation of a loan whose only repayments are reversed
\* ran to its end.
C8_Witness ==
    /\ pc = "done"
    /\ raised = "none"
    /\ Len(loans_ajorepayment) > 0
    /\ NothingRepaid
    /\ expected.expected_principal_outstanding = Some(Dec(1000))

\* C9: businessDaysBetween(start, end) terminates and returns the number of
\* days d, start <= d <= end, that fall on Monday to Friday; it returns 0
\* when either date is absent and when start is after end.
C9_BusinessDaysReturned ==
    (cal_pc = "call") ~>
        /\ cal_pc = "return"
        /\ returned = Some(WeekdaysBetween(start_date, end_date))
        /\ (IsNone(start_date) \/ IsNone(end_date)) => returned = Some(0)
        /\ (~IsNone(start_date) /\ ~IsNone(end_date)
            /\ Val(start_date) > Val(end_date)) => returned = Some(0)

\* C9, witness: a call over an interval that starts on a Friday and ends on
\* the next Monday returned 2.
C9_Witness ==
    /\ cal_pc = "return"
    /\ ~IsNone(start_date)
    /\ ~IsNone(end_date)
    /\ Val(start_date) % 7 = 4
    /\ Val(end_date) = Val(start_date) + 3
    /\ returned = Some(2)

\* the first-payment dates of the stored row
DueDate == metrics_data.first_payment_due_date

ReceivedDate == metrics_data.first_payment_received_date

\* C10: fimrTagged is true if the due date is absent; false if a first
\* repayment exists dated on or before the due date; false if no repayment
\* exists and dueDate >= evaluationDate; true in every other case.
C10_FimrTable ==
    ~IsNone(expected.expected_fimr) =>
        /\ IsNone(DueDate) => Val(expected.expected_fimr) = TRUE
        /\ (~IsNone(DueDate) /\ ~IsNone(ReceivedDate)) =>
               Val(expected.expected_fimr)
                   = (Val(ReceivedDate) > Val(DueDate))
        /\ (~IsNone(DueDate) /\ IsNone(ReceivedDate)) =>
               Val(expected.expected_fimr) = (Val(DueDate) < today)

\* C10, witness: the tag was computed as false for a loan with no repayment
\* on the very day its first payment falls due.
C10_Witness ==
    /\ expected.expected_fimr = Some(FALSE)
    /\ IsNone(ReceivedDate)
    /\ DueDate = Some(today)

\* the stored row with its first-payment due date set to a given day
DueOn(day) == [metrics_data EXCEPT !.first_payment_due_date = Some(day)]

\* C11: firstPaymentMissed is true if no first repayment exists, whether the
\* due date has passed, has not yet arrived or is absent; otherwise it is
\* true exactly when the first repayment is dated strictly after the due
\* date, and false otherwise, also when the due date is absent.
C11_FirstPaymentMissedTable ==
    ~IsNone(expected.expected_first_payment_missed) =>
        /\ IsNone(ReceivedDate) =>
               /\ Val(expected.expected_first_payment_missed) = TRUE
               /\ \A day \in 0 .. MaxDay :
                      expected_first_payment_missed(DueOn(day)) = TRUE
               /\ expected_first_payment_missed(
                      Without("first_payment_due_date")) = TRUE
        /\ (~IsNone(ReceivedDate) /\ ~IsNone(DueDate)) =>
               Val(expected.expected_first_payment_missed)
                   = (Val(DueDate) < Val(ReceivedDate))
        /\ ~IsNone(ReceivedDate) =>
               /\ \A day \in 0 .. MaxDay :
                      expected_first_payment_missed(DueOn(day))
                          = (day < Val(ReceivedDate))
               /\ expected_first_payment_missed(
                      Without("first_payment_due_date")) = FALSE

\* C11, witness: the flag was computed as true for a loan with no repayment
\* whose first payment is not yet due.
C11_Witness ==
    /\ expected.expected_first_payment_missed = Some(TRUE)
    /\ IsNone(ReceivedDate)
    /\ ~IsNone(DueDate)
    /\ Val(DueDate) > today

\* C12: whenever both a first-payment due date and a first repayment exist,
\* fimrTagged and firstPaymentMissed agree: both are true if the repayment is
\* dated strictly after the due date, both false if it is dated on or before
\* the due date.
C12_TagsAgree ==
    (~IsNone(expected.expected_first_payment_missed)
     /\ ~IsNone(ReceivedDate)) =>
        /\ ~IsNone(DueDate) =>
               /\ expected.expected_fimr
                      = expected.expected_first_payment_missed
               /\ Val(expected.expected_fimr)
                      = (Val(ReceivedDate) > Val(DueDate))
        /\ \A day \in 0 .. MaxDay :
               /\ expected_fimr(DueOn(day), today)
                      = expected_first_payment_missed(DueOn(day))
               /\ Val(ReceivedDate) > day =>
                      expected_first_payment_missed(DueOn(day)) = TRUE
               /\ Val(ReceivedDate) <= day =>
                      expected_first_payment_missed(DueOn(day)) = FALSE

\* C12, witness: both tags were computed as true for a loan whose first
\* repayment came one day after the due date.
C12_Witness ==
    /\ expected.expected_first_payment_missed = Some(TRUE)
    /\ expected.expected_fimr = Some(TRUE)
    /\ ~IsNone(ReceivedDate)
    /\ ~IsNone(DueDate)
    /\ Val(ReceivedDate) = Val(DueDate) + 1

\* the stored row with its current DPD set to a given number of days
DpdOf(dpd) == [metrics_data EXCEPT !.current_dpd = Some(dpd)]

\* C13: earlyIndicatorTagged is true exactly when 1 <= currentDPD <= 6; it is
\* false for currentDPD = 0 and for every currentDPD >= 7.
C13_EarlyIndicator ==
    ~IsNone(expected.expected_early_indicator) =>
        /\ Val(expected.expected_early_indicator)
               = (Val(metrics_data.current_dpd) \in 1 .. 6)
        /\ \A dpd \in 0 .. MaxDay :
               /\ expected_early_indicator(DpdOf(dpd)) = (dpd \in 1 .. 6)
               /\ dpd = 0 => ~expected_early_indicator(DpdOf(dpd))
               /\ dpd >= 7 => ~expected_early_indicator(DpdOf(dpd))

\* C13, witness: the tag was computed as true for a loan four days past due.
C13_Witness ==
    /\ expected.expected_early_indicator = Some(TRUE)
    /\ Val(metrics_data.current_dpd) = 4

\* validate_repayment_delay_rate has run
RateComputed ==
    /\ ~IsNone(expected.expected_dpd)
    /\ pc \in {"validate_fimr_tagging", "done"}

\* the stored columns the score reads
StoredAge == metrics_data.loan_age

StoredDpd == Val(metrics_data.current_dpd)

StoredSince == metrics_data.days_since_last_repayment

\* C14: repaymentDelayRate is (1 - (((daysSinceLastRepayment + currentDPD) /
\* 2) / loanAge) / 0.25) * 100 when loanAge > 0 and a last repayment exists;
\* (1 - (currentDPD / loanAge) / 0.25) * 100 when loanAge > 0 and no
\* repayment was made; exactly 0 when loanAge = 0; null when loanAge is
\* undefined.
C14_DelayRateFormula ==
    RateComputed =>
        /\ IsNone(StoredAge) => IsNone(expected.expected_rate)
        /\ StoredAge = Some(0) => expected.expected_rate = Some(Dec(0))
        /\ (~IsNone(StoredAge) /\ Val(StoredAge) > 0) =>
               /\ ~IsNone(expected.expected_rate)
               /\ ~IsNone(StoredSince) =>
                      DMul(Val(expected.expected_rate), Dec(Val(StoredAge)))
                          = Dec(100 * Val(StoredAge)
                                - 200 * (Val(StoredSince) + StoredDpd))
               /\ IsNone(StoredSince) =>
                      DMul(Val(expected.expected_rate), Dec(Val(StoredAge)))
                          = Dec(100 * Val(StoredAge) - 400 * StoredDpd)

\* C14, witness: a rate was computed for a loan past due whose last repayment
\* lies some days back.
C14_Witness ==
    /\ RateComputed
    /\ ~IsNone(StoredAge)
    /\ Val(StoredAge) > 0
    /\ ~IsNone(StoredSince)
    /\ Val(StoredSince) > 0
    /\ StoredDpd > 0
    /\ ~IsNone(expected.expected_rate)

\* a rate was computed for a loan of positive age with non-negative delays
RateScored ==
    /\ RateComputed
    /\ ~IsNone(expected.expected_rate)
    /\ ~IsNone(StoredAge)
    /\ Val(StoredAge) > 0
    /\ StoredDpd >= 0
    /\ (IsNone(StoredSince) \/ Val(StoredSince) >= 0)

\* C15, as stated: for every loan with loanAge > 0, currentDPD >= 0 and
\* daysSinceLastRepayment >= 0 or absent, a non-null repaymentDelayRate lies
\* within 0 to 100.
C15_RateWithinPercent ==
    RateScored =>
        /\ DLe(Dec(0), Val(expected.expected_rate))
        /\ DLe(Val(expected.expected_rate), Dec(100))

\* C15, amended: for every such loan a non-null repaymentDelayRate is at most
\* 100; it is at least 0 exactly when daysSinceLastRepayment + currentDPD <=
\* loanAge / 2 (a last repayment exists) or currentDPD <= loanAge / 4 (no
\* repayment was made), and negative otherwise.
C15_RateAtMostHundred ==
    RateScored =>
        /\ DLe(Val(expected.expected_rate), Dec(100))
        /\ ~IsNone(StoredSince) =>
               (DLe(Dec(0), Val(expected.expected_rate))
                <=> 2 * (Val(StoredSince) + StoredDpd) <= Val(StoredAge))
        /\ IsNone(StoredSince) =>
               (DLe(Dec(0), Val(expected.expected_rate))
                <=> 4 * StoredDpd <= Val(StoredAge))

\* C15, witness: a rate below 0 was computed for a loan three days past due
\* at the age of four days.
C15_Witness ==
    /\ RateScored
    /\ Val(StoredAge) = 4
    /\ StoredDpd = 3
    /\ DLt(Val(expected.expected_rate), Dec(0))

\* the delays over which the score is compared
MaxDelay == 2

\* the score of the stored row with its two delays set
RateAt(dpd, since) ==
    Val(expected_rate([metrics_data EXCEPT
                           !.current_dpd = Some(dpd),
                           !.days_since_last_repayment = since]))

\* the last-repayment delays of the comparison, absence included
Delays == {None} \cup { Some(d) : d \in 0 .. MaxDelay }

\* for fixed loanAge > 0 the score never increases when currentDPD or
\* daysSinceLastRepayment increases by a day
RateNeverIncreases ==
    /\ \A since \in Delays : \A dpd \in 0 .. MaxDelay - 1 :
           DLe(RateAt(dpd + 1, since), RateAt(dpd, since))
    /\ \A dpd \in 0 .. MaxDelay : \A since \in 0 .. MaxDelay - 1 :
           DLe(RateAt(dpd, Some(since + 1)), RateAt(dpd, Some(since)))

\* C16, as stated: for fixed loanAge > 0 the score never increases when
\* currentDPD or daysSinceLastRepayment increases, and of two loans with the
\* same loanAge and currentDPD the one with no repayment at all is not scored
\* higher than the one with a last repayment on record.
C16_NoRepaymentNotHigher ==
    (RateComputed /\ ~IsNone(StoredAge) /\ Val(StoredAge) > 0) =>
        /\ RateNeverIncreases
        /\ \A dpd, since \in 0 .. MaxDelay :
               DLe(RateAt(dpd, None), RateAt(dpd, Some(since)))
        /\ ~IsNone(StoredSince) =>
               DLe(RateAt(StoredDpd, None), Val(expected.expected_rate))

\* C16, amended: for fixed loanAge > 0 the score never increases when
\* currentDPD or daysSinceLastRepayment increases; of two loans with the same
\* loanAge and currentDPD the one with no repayment at all is not scored
\* higher than the one with a last repayment on record exactly when
\* daysSinceLastRepayment <= currentDPD, and is scored strictly higher when
\* daysSinceLastRepayment > currentDPD.
C16_NoRepaymentHigherWhenRecent ==
    (RateComputed /\ ~IsNone(StoredAge) /\ Val(StoredAge) > 0) =>
        /\ RateNeverIncreases
        /\ \A dpd, since \in 0 .. MaxDelay :
               DLe(RateAt(dpd, None), RateAt(dpd, Some(since)))
                   <=> since <= dpd
        /\ ~IsNone(StoredSince) =>
               (DLe(RateAt(StoredDpd, None), Val(expected.expected_rate))
                <=> Val(StoredSince) <= StoredDpd)

\* C16, witness: a rate was computed for a loan whose last repayment lies
\* further back than its DPD, below the rate of the same loan with no
\* repayment.
C16_Witness ==
    /\ RateComputed
    /\ ~IsNone(StoredAge)
    /\ Val(StoredAge) > 0
    /\ ~IsNone(StoredSince)
    /\ Val(StoredSince) > StoredDpd
    /\ DLt(Val(expected.expected_rate), RateAt(StoredDpd, None))

\* the snapshot of the loan as of a given evaluation date, terms and
\* repayments as they are
SnapshotAt(day) ==
    computeSnapshot(django_data, get_django_repayments(loans_ajorepayment),
                    day)

\* C17: holding loan terms and repayments fixed, along any increasing
\* sequence of evaluation dates currentDPD never decreases once
\* actualOutstanding > 0: from each evaluation date to the next day
\* actualOutstanding stays > 0 and currentDPD does not fall.
C17_DpdNeverDecreases ==
    (pc = "done" /\ ~IsNone(expected.expected_dpd)) =>
        /\ Val(expected.expected_dpd) = expected_dpd(SnapshotAt(today))
        /\ \A day \in today .. MaxDay - 1 :
               DpdOutstanding(SnapshotAt(day)) =>
                   /\ DpdOutstanding(SnapshotAt(day + 1))
                   /\ expected_dpd(SnapshotAt(day + 1))
                          >= expected_dpd(SnapshotAt(day))

\* C17, witness: a DPD was computed for a loan behind schedule whose DPD is
\* higher as of a later evaluation date.
C17_Witness ==
    /\ pc = "done"
    /\ ~IsNone(expected.expected_dpd)
    /\ StoredOutstanding.n > 0
    /\ \E later \in today .. MaxDay :
           expected_dpd(SnapshotAt(later)) > Val(expected.expected_dpd)

\* the loan under validation has the rows, repayments and stored snapshot of
\* the loan validated before it
SameInputs ==
    /\ loan_index >= 2
    /\ ~IsNone(django_data)
    /\ ~IsNone(metrics_data)
    /\ django_data = previous.django_data
    /\ loans_ajorepayment = previous.table
    /\ metrics_data = previous.metrics_data

\* C18: two evaluations with identical loan terms, identical repayments and
\* the same evaluation date produce identical values for every field,
\* independent of any earlier evaluation and of the wall-clock date at which
\* they run.
C18_SameInputsSameValues ==
    (main_pc # "idle" /\ pc = "done" /\ SameInputs) =>
        expected = previous.expected

\* the loan's row of loans_ajoloan, or its principal, is absent
TermsAbsent == IsNone(django_data) \/ IsNone(django_data.loan_amount)

\* the values validate_loan computes for every loan it runs through
Evaluated ==
    /\ pc = "done"
    /\ raised = "none"
    /\ ~IsNone(expected.expected_total)
    /\ ~IsNone(expected.expected_total_outstanding)
    /\ ~IsNone(expected.expected_daily_repayment)
    /\ ~IsNone(expected.expected_actual_outstanding)
    /\ ~IsNone(expected.expected_dpd)
    /\ ~IsNone(expected.expected_fimr)
    /\ ~IsNone(expected.expected_first_payment_missed)
    /\ validator.total_tests > previous.validator.total_tests

LinesOf(text) == SelectSeq(stdout, LAMBDA line : line.text = text)

\* the ids of the loans whose validation was started, in the order started
Started ==
    [i \in 1 .. Len(LinesOf("Validating Loan ID")) |->
         LinesOf("Validating Loan ID")[i].loan]

\* the run ended with the summary, after every loan
Summarised ==
    /\ main_pc = "exited"
    /\ loan_index = Len(TEST_LOAN_IDS)
    /\ Started = TEST_LOAN_IDS
    /\ stdout[Len(stdout)].text = "TEST SUMMARY"
    /\ exit_status \in {Some(0), Some(1)}

\* the loans are taken in order, none aborts the run, and a loan with both
\* rows is validated to the end whatever became of the loans before it
InOrder ==
    /\ Started = SubSeq(TEST_LOAN_IDS, 1, loan_index)
    /\ LinesOf("FATAL ERROR") = <<>>
    /\ main_pc = "exited" => Summarised
    /\ (main_pc \in {"for", "print_summary", "exited"} /\ loan_index >= 1
        /\ ~TermsAbsent /\ ~IsNone(metrics_data)) => Evaluated

\* C20: in a batch run a failure while processing one loan (missing loan
\* terms or any exception) never aborts the batch: every other loan is still
\* evaluated, in order, and the summary is still produced.
C20_BatchNeverAborted == main_pc # "idle" => InOrder

\* C20, witness: the run ended with the summary after the validation of its
\* first loan raised an exception and that of its last loan ran to the end.
C20_Witness ==
    /\ Summarised
    /\ Len(LinesOf("ERROR validating loan")) > 0
    /\ LinesOf("ERROR validating loan")[1].loan = TEST_LOAN_IDS[1]
    /\ Evaluated

\* a loan with both rows was validated to the end
Validated ==
    /\ main_pc # "idle"
    /\ pc = "done"
    /\ raised = "none"
    /\ ~IsNone(django_data)
    /\ ~IsNone(metrics_data)
    /\ ~IsNone(expected.expected_fimr)

\* C21: within one batch run the evaluation date is held fixed: the date
\* used for business-days-since-disbursement, for loan age and for the FIMR
\* due-date comparison is the date the run was started with, for every loan
\* of the batch and for every field of one loan, even if the system clock's
\* date advances while the batch is running.
C21_EvaluationDateFixed ==
    Validated =>
        /\ expected.expected_business_days
               = expected_business_days(django_data, evaluation_date)
        /\ expected.expected_loan_age
               = expected_loan_age(django_data, evaluation_date)
        /\ expected.expected_fimr
               = Some(expected_fimr(metrics_data, evaluation_date))

\* every thread has made all its comparisons
AllDone ==
    /\ thread_pc # <<>>
    /\ \A t \in Threads : thread_pc[t] = "done"

\* the validator after the first n comparisons of thread t's loan, made
\* alone on a new MetricsValidator
RECURSIVE Alone(_, _)
Alone(t, n) ==
    IF n = 0 THEN NewValidator
    ELSE assert_equal(Alone(t, n - 1), <<t, n>>, outcome[t][n])

\* the sum over the threads 1 .. t of a counter of the loan evaluated alone
RECURSIVE SumAlone(_, _)
SumAlone(counter, t) ==
    IF t = 0 THEN 0
    ELSE SumAlone(counter, t - 1) + Alone(t, Len(outcome[t]))[counter]

\* the results one thread's comparisons left in test_results, in order
ResultsOf(t) ==
    SelectSeq(validator.test_results, LAMBDA result : result.test[1] = t)

\* C22: per-loan evaluations share no mutable state: when independent loans
\* are evaluated in parallel, in any interleaving, each loan leaves the
\* results it leaves when evaluated alone and no update made during one
\* loan's evaluation is lost: every counter is the sum of what the loans
\* count alone.
C22_NoUpdateLost ==
    AllDone =>
        /\ \A t \in Threads :
               ResultsOf(t) = Alone(t, Len(outcome[t])).test_results
        /\ validator.total_tests = SumAlone("total_tests", MaxThreads)
        /\ validator.passed_tests = SumAlone("passed_tests", MaxThreads)
        /\ validator.failed_tests = SumAlone("failed_tests", MaxThreads)

\* the results recorded under a test name
ResultsNamed(test) ==
    SelectSeq(validator.test_results, LAMBDA result : result.test = test)

\* the comparison named test was made in this validation of the loan
Compared(test) == ResultsNamed(test) # <<>>

\* the comparison named test passed
Passed(test) == ResultsNamed(test)[1].passed

\* the monetary comparisons: test name, expected value, stored column
MoneyComparisons ==
    { <<"Loan Amount", Some(django_data.loan_amount), "loan_amount">>,
      <<"Total Principal Paid", expected.expected_principal,
        "total_principal_paid">>,
      <<"Total Interest Paid", expected.expected_interest,
        "total_interest_paid">>,
      <<"Total Fees Paid", expected.expected_fees, "total_fees_paid">>,
      <<"Total Repayments", expected.expected_total, "total_repayments">>,
      <<"Principal Outstanding", expected.expected_principal_outstanding,
        "principal_outstanding">>,
      <<"Interest Outstanding", expected.expected_interest_outstanding,
        "interest_outstanding">>,
      <<"Fees Outstanding", expected.expected_fees_outstanding,
        "fees_outstanding">>,
      <<"Total Outstanding", expected.expected_total_outstanding,
        "total_outstanding">>,
      <<"Daily Repayment Amount", expected.expected_daily_repayment,
        "daily_repayment_amount">>,
      <<"Actual Outstanding", expected.expected_actual_outstanding,
        "actual_outstanding">> }

\* the stored value of a column
Actual(column) ==
    IF column \in {"loan_amount", "interest_rate"} THEN metrics_data[column]
    ELSE Val(metrics_data[column])

\* |expected - actual| <= tolerance
Within(exp, column, tolerance) ==
    DLe(DAbs(DSub(exp, Actual(column))), tolerance)

\* C23: every monetary comparison made by the validating suite passes
\* exactly when |expected - actual| <= 0.01 and every interest-rate
\* comparison exactly when |expected - actual| <= 0.0001, for every expected
\* value the suite can compute, totals computed over an empty repayment list
\* included.
C23_PassesWithinTolerance ==
    pc # "idle" =>
        /\ \A cmp \in MoneyComparisons :
               Compared(cmp[1]) =>
                   (Passed(cmp[1])
                        <=> Within(Val(cmp[2]), cmp[3], Norm(1, 100)))
        /\ Compared("Interest Rate") =>
               (Passed("Interest Rate")
                    <=> Within(django_data.interest_rate, "interest_rate",
                               Norm(1, 10000)))

\* the keys whose row, as committed, was written by the current run
CommittedUpdates ==
    { k \in Keys : committed[k] # None /\ committed[k].updated_at = run }

\* C24: in step3_sync_emails and step3_sync_officer_data, for every
\* sequence of per-row update successes and failures, the returned
\* updated_count equals the number of rows whose update is committed in the
\* Seeds Metrics database when the function returns.
C24_CountIsCommitted ==
    sync_pc = "returned" => updated_count = Cardinality(CommittedUpdates)

\* the row has nothing for the script to fill in
Filled(row) ==
    IF script = "sync_officer_emails" THEN ~Empty(row.officer_email)
    ELSE ~Empty(row.officer_id) /\ ~Empty(row.officer_name)

\* no committed row without a gap changes, no row appears or disappears and
\* user_type, a column outside the officer fields, keeps its value
GapsOnly ==
    \A k \in Keys :
        /\ committed[k] = None <=> committed'[k] = None
        /\ committed[k] # None =>
               /\ committed'[k].user_type = committed[k].user_type
               /\ Filled(committed[k]) => committed'[k] = committed[k]

\* a run over the state a run has left returns 0
RerunUpdatesNothing ==
    (sync_pc' = "returned" /\ run' > 1) => updated_count' = 0

\* C25: the officer sync scripts only fill gaps: step3_sync_emails never
\* changes an officer row whose officer_email is already non-empty and
\* step3_sync_officer_data never changes a loan row whose officer_id and
\* officer_name are both non-empty; neither touches a column other than the
\* officer fields, branch and updated_at, and re-running the sync on the
\* resulting state with the same source data updates zero rows.
C25_FillsGapsOnly == [][GapsOnly /\ RerunUpdatesNothing]_vars

\* the metrics row under key k carries the type and stage of Django loan k
InSync(table, k) ==
    /\ table[k].loan_type = source[k].loan_type
    /\ table[k].verification_status = source[k].verification_stage

\* every metrics row that matches a Django loan carries its type and stage
AllInSync ==
    \A k \in 1 .. Len(source) : committed[k] # None => InSync(committed, k)

\* rows already equal, and rows that match no Django loan, are not written
EqualNotWritten ==
    \A k \in Keys :
        (committed[k] = None \/ k > Len(source) \/ InSync(committed, k)) =>
            committed'[k] = committed[k]

\* C26: after sync_loan_types.main completes without error, every row of
\* the metrics loans table whose loan_id matches a disbursed Django loan has
\* loan_type and verification_status equal to that loan's Django loan_type
\* and verification_stage; rows already equal are not written (updated_at
\* unchanged), and an immediately repeated run reports 0 updated loans.
C26_LoanTypesSynced ==
    [][/\ sync_pc' = "completed" => AllInSync'
       /\ EqualNotWritten
       /\ (sync_pc' = "completed" /\ run' > 1) => updated_count' = 0]_vars

\* C26, witness: a repeated run completed with 0 updated loans over a table
\* in which the first run wrote one row and left an equal row unwritten.
C26_Witness ==
    /\ script = "sync_loan_types"
    /\ sync_pc = "completed"
    /\ run = 2
    /\ updated_count = 0
    /\ \E k \in 1 .. Len(source) :
           committed[k] # None /\ committed[k].updated_at = 1
    /\ \E k \in 1 .. Len(source) :
           committed[k] # None /\ committed[k].updated_at = 0

\* the results recorded as not passed
FailedResults ==
    SelectSeq(validator.test_results, LAMBDA result : ~result.passed)

\* C27: after any sequence of assert_equal calls on a MetricsValidator,
\* total_tests = passed_tests + failed_tests = length of test_results (every
\* call increases total_tests by exactly 1 and leaves one result), and the
\* number of results with passed = false equals failed_tests.
C27_CountersAgree ==
    /\ validator.total_tests
           = validator.passed_tests + validator.failed_tests
    /\ validator.total_tests = Len(validator.test_results)
    /\ Len(FailedResults) = validator.failed_tests

\* C27, witness: a validation ran to the end with comparisons that passed
\* and a comparison that failed.
C27_Witness ==
    /\ pc = "done"
    /\ validator.failed_tests > 0
    /\ validator.passed_tests > 0
    /\ Len(validator.test_results) > validator.failed_tests

\* the DPD the validation computed from the stored row
ComputedDpd == Val(expected.expected_dpd)

\* the DPD formula read repayment_days_paid and found it defined, the daily
\* amount being positive
DaysPaidRead ==
    /\ StoredDaily.n > 0
    /\ ~IsNone(metrics_data.repayment_days_paid)

\* C28, as stated: for every loan with totalRepayments >= 0, currentDPD >= 1
\* if and only if actualOutstanding > 0; whenever actualOutstanding > 0,
\* dailyRepaymentAmount > 0, so repaymentDaysPaid is defined wherever the DPD
\* formula reads it; and 0 <= currentDPD <= repaymentDaysDueToday.
C28_DpdWithinDue ==
    (~IsNone(expected.expected_dpd) /\ StoredTotal.n >= 0) =>
        /\ ComputedDpd >= 1 <=> StoredOutstanding.n > 0
        /\ StoredOutstanding.n > 0 => DaysPaidRead
        /\ 0 <= ComputedDpd
        /\ ComputedDpd <= StoredDue

\* C28, amended: for every loan with totalRepayments >= 0, currentDPD >= 1
\* if and only if actualOutstanding > 0; whenever actualOutstanding > 0,
\* dailyRepaymentAmount > 0, so repaymentDaysPaid is defined wherever the DPD
\* formula reads it; 0 <= currentDPD, and currentDPD <= repaymentDaysDueToday
\* whenever repaymentDaysDueToday >= 0, which holds of every loan with
\* termDays >= 0.
C28_DpdWithinDueWhenDue ==
    (~IsNone(expected.expected_dpd) /\ StoredTotal.n >= 0) =>
        /\ ComputedDpd >= 1 <=> StoredOutstanding.n > 0
        /\ StoredOutstanding.n > 0 => DaysPaidRead
        /\ 0 <= ComputedDpd
        /\ StoredDue >= 0 => ComputedDpd <= StoredDue
        /\ django_data.loan_term_days >= 0 => StoredDue >= 0

\* C28, witness: the DPD of a loan behind its schedule was computed: some
\* days are paid, a fraction of a day among them, and the DPD lies strictly
\* between 0 and the days due.
C28_Witness ==
    /\ ~IsNone(expected.expected_dpd)
    /\ StoredTotal.n > 0
    /\ StoredOutstanding.n > 0
    /\ StoredPaid.d > 1
    /\ ComputedDpd >= 1
    /\ ComputedDpd < StoredDue

\* C29: in every script's main, on every exit path (normal completion,
\* query error, failure of the first or of the second connection attempt),
\* every database connection that was opened is closed before the process
\* ends, and the cleanup block itself never raises (it never refers to a
\* connection that was not created).
C29_ConnectionsClosed ==
    /\ cleanup = "none"
    /\ conn_pc = <<"ended", 0>> => opened \subseteq closed

\* the lines that report a loan that was not validated
NotValidatedLines ==
    SelectSeq(stdout,
              LAMBDA line :
                  line.text \in {"ERROR: not found in Django database",
                                 "ERROR: not found in SeedsMetrics database",
                                 "ERROR validating loan", "FATAL ERROR"})

\* C30: the validation runner exits with status 0 if and only if every loan
\* in TEST_LOAN_IDS was validated and no assertion failed; it exits with
\* status 1 when any assertion failed, when any loan could not be validated
\* (not found in either database, or an exception during its validation),
\* or on a fatal error.
C30_ExitStatus ==
    main_pc = "exited" =>
        /\ exit_status \in {Some(0), Some(1)}
        /\ exit_status = Some(0)
               <=> (NotValidatedLines = <<>> /\ validator.failed_tests = 0)

====
